---- MODULE Spec2Model ----
(***************************************************************************)
(* The adaptive fetch/cache controller of yahoofinancials: the module URL  *)
(* cache, the per-instance result cache, the stats tracker, the pacing     *)
(* interval, the in-flight request record and the retry loop.              *)
(*                                                                         *)
(* Time is counted in milliseconds (the source uses float seconds), the    *)
(* two interval factors in percent.  A timestamp is abstracted to the      *)
(* ordinal of the pacing wait that produced it: _lastget = 0 is the        *)
(* source's "no fetch yet", and every _be_nice moves it forward.           *)
(*                                                                         *)
(* fetch_url of __init__.py and _fetch_url of fetchurl.py are the same     *)
(* code over module globals of the same names; one model serves both.      *)
(***************************************************************************)
EXTENDS Integers, Sequences, FiniteSets, TLC

\* ------------------------------------------------------------------ bounds
\* number of public calls (fetch_url, _scrape_finance, cache_clear) of a run
MaxCalls == 4

\* ------------------------------------------------------------------ inputs
URLS == {"u1", "u2"}
\* what a status-200 page parses to: stores / empty stores / no
\* root.App.main script / data without context.dispatcher.stores
PageBodies == {"stores", "empty", "noscript", "nostores"}
ErrBody == "errpage"
\* latency of a network call, ms
Latencies == {50, 250}
\* random.randrange(1, 5) of the retry backoff
BackoffJitter == {1, 2, 3, 4}

\* ------------------------------------------------------- program constants
READ_TRIES == 2
_MIN_INTERVAL == 7000
_MAX_INTERVAL == 30000
_MORE_INTERVAL == 110
_LESS_INTERVAL == 96
UAs == {"My User Agent", "World Wide Web"}

Min2(a, b) == IF a <= b THEN a ELSE b
Max2(a, b) == IF a >= b THEN a ELSE b

\* ------------------------------------------------------------------ values
\* one shape for everything a call returns, raises or memoizes
V(kind, status, body, url, info) ==
    [kind |-> kind, status |-> status, body |-> body, url |-> url, info |-> info]
NoRet == V("none", 0, "", "", "")
Return(status, body) == V("return", status, body, "", "")
Raise(exc) == V(exc, 0, "", "", "")
Ev(ev, v) == [ev |-> ev, v |-> v]

\* what the network does with one requests.get: a response, a timeout
\* (caught by fetch_url) or a connection error (requests.ConnectionError is
\* neither a Timeout nor an HTTPError).  ua is the random.choice of the
\* reset_headers that a recorded failure runs.
Responses ==
    {[kind |-> "resp", status |-> 200, body |-> b] : b \in PageBodies}
    \cup {[kind |-> "resp", status |-> s, body |-> ErrBody] : s \in {403, 404, 500}}
    \cup {[kind |-> k, status |-> 0, body |-> ""] : k \in {"Timeout", "ConnectionError"}}
NetFails(r) == r.kind = "Timeout" \/ (r.kind = "resp" /\ r.status >= 500)
Outcomes(resps, lats, uas) ==
    {[kind |-> r.kind, status |-> r.status, body |-> r.body, elapsed |-> e, ua |-> ua] :
        r \in {x \in resps : NetFails(x)}, e \in lats, ua \in uas}
    \cup {[kind |-> r.kind, status |-> r.status, body |-> r.body, elapsed |-> e, ua |-> ""] :
        r \in {x \in resps : ~NetFails(x) /\ x.kind = "resp"}, e \in lats}
    \cup {[kind |-> r.kind, status |-> 0, body |-> "", elapsed |-> 0, ua |-> ""] :
        r \in {x \in resps : x.kind = "ConnectionError"}}

\* the cache and retry logic does not look at latencies or identities: its
\* runs draw every kind of response at one latency and one identity
CacheNets == Outcomes(Responses, {50}, {"My User Agent"})

\* ------------------------------------------------------------------- state
VARIABLES
    _url_cache,     \* module dict url -> (status, text)
    _cache,         \* self._cache of the one YahooFinanceETL instance
    _fstats,        \* pass / fail buckets and the cached counter
    _interval,      \* pacing interval
    _lastget,       \* timestamp of the last paced fetch, 0 = none
    _fetch_start,   \* list of start timestamps of requests in flight
    HEADERS,        \* the User-Agent in use
    call,           \* the _scrape_finance call in progress, if any
    last,           \* the most recent call: what it did and how it ended
    data,           \* the payload handed to decrypt
    data_obj,       \* the caller's root.App.main mapping handed to key discovery
    soup,           \* the src of the page's main.*.js script tags, in page order
    flags,          \* DEBUG, TIME_REPORT, STAT_REPORT, SEE_FETCH
    batch,          \* self.ticker and the get_stock_data loop over it
    threads,        \* the callers that share the module, each inside _fetch_url or not
    evpkdf,         \* the arguments of an _EVPKDF call and what it computed
    api             \* the _recursive_api_request call in progress, if any

vars == <<_url_cache, _cache, _fstats, _interval, _lastget, _fetch_start, HEADERS, call, last,
          data, data_obj, soup, flags, batch, threads, evpkdf, api>>
\* decrypt's arguments: nothing in the fetch and cache code touches them
pw_args == <<data, data_obj, soup>>
\* the callers' own state: the calls of one caller leave it alone
callers == <<batch, threads>>
\* the flags as the module sets them without the environment variables
NoFlags == [DEBUG |-> 0, TIME_REPORT |-> FALSE, STAT_REPORT |-> 0, SEE_FETCH |-> FALSE]
NoBatch == [ticker |-> <<>>, active |-> FALSE, at |-> 0, data |-> {}]
NoThreads == <<>>
\* the runs of _EVPKDF and of _recursive_api_request: no other call looks
\* at their state
standalone == <<evpkdf, api>>
NoKdf == [password |-> <<>>, salt |-> <<>>, keySize |-> 0, ivSize |-> 0, done |-> FALSE,
          key |-> <<>>, iv |-> <<>>, blocks |-> <<>>]
NoApi == [active |-> FALSE, i |-> 0, tries |-> 0, rounds |-> 0, fetches |-> 0]

EmptyDict == [k \in {} |-> 0]
\* a text payload (kind "text", its characters) or the base64 text of a byte
\* string (kind "b64", the bytes it decodes to); NoData: no payload at all
Text(chars) == [kind |-> "text", chars |-> chars, bytes |-> <<>>]
NoData == Text(<<>>)
Put(d, k, v) == [x \in DOMAIN d \cup {k} |-> IF x = k THEN v ELSE d[x]]

EmptyBucket ==
    [num |-> 0, sum |-> 0, avg |-> [n |-> 0, d |-> 1], min |-> 99000, max |-> 0,
     hist |-> EmptyDict]

\* ----------------------------------------------------------------- helpers
\* fs['avg'] is the exact quotient sum / num, kept as a fraction
NotAboveAvg(elapsed, avg) == elapsed * avg.d <= avg.n

LessThanAvg(elapsed, avg) == elapsed * avg.d < avg.n

\* the update without its num += 1
_fetch_stats_update_nonum(fs, elapsed) ==
    [fs EXCEPT !.sum = @ + elapsed, !.min = Min2(@, elapsed), !.max = Max2(@, elapsed)]

\* the update with a histogram keyed by the floor
_fetch_stats_update_floor(fs, elapsed) ==
    LET histn == (elapsed * 100) \div 10000
    IN  [num |-> fs.num + 1, sum |-> fs.sum + elapsed,
         avg |-> [n |-> fs.sum + elapsed, d |-> fs.num + 1],
         min |-> Min2(fs.min, elapsed), max |-> Max2(fs.max, elapsed),
         hist |-> Put(fs.hist, histn,
                      1 + (IF histn \in DOMAIN fs.hist THEN fs.hist[histn] ELSE 0))]

_fetch_stats_update(fs, elapsed) ==
    LET num == fs.num + 1
        sum == fs.sum + elapsed
        histn == -((-(elapsed * 100)) \div 10000)
    IN  [num |-> num, sum |-> sum, avg |-> [n |-> sum, d |-> num],
         min |-> Min2(fs.min, elapsed), max |-> Max2(fs.max, elapsed),
         hist |-> Put(fs.hist, histn,
                      1 + (IF histn \in DOMAIN fs.hist THEN fs.hist[histn] ELSE 0))]

reset_headers(ua) == ua

MoreIntervalNoCap(iv) == (iv * _MORE_INTERVAL) \div 100

MoreInterval(iv) == Min2((iv * _MORE_INTERVAL) \div 100, _MAX_INTERVAL)
LessIntervalWrongFactor(iv) == Max2((iv * _MORE_INTERVAL) \div 100, _MIN_INTERVAL)

LessInterval(iv) == Max2((iv * _LESS_INTERVAL) \div 100, _MIN_INTERVAL)

Pop(s) == SubSeq(s, 1, Len(s) - 1)

\* S is the whole state threaded through one call; S.ret.kind = "ValueError"
\* after the overlap branch raised.
CountCachedNot(n) == n

CountCached(n) == n + 1

OverlapNever(start, fetch_start) == FALSE

Overlap(start, fetch_start) == start /\ fetch_start # <<>>

\* what a flag lets through: 1 trace, 2 and 3 the delay line of _be_nice
\* under TIME_REPORT and under SEE_FETCH, 4 the URL line of _fetch_url,
\* 5 the elapsed time of requests.get, 6 the stats report
ReportCounted(S, on, what) ==
    IF on THEN [S EXCEPT !.log = Append(@, Ev("print", what)), !.fstats.cached = @ + 1] ELSE S

Report(S, on, what) == IF on THEN [S EXCEPT !.log = Append(@, Ev("print", what))] ELSE S

_fetch_stats(S, start, err, cached, elapsed, ua) ==
    IF cached THEN
        [S EXCEPT !.fstats.cached = CountCached(@)]
    ELSE IF err THEN
        [S EXCEPT !.fetch_start = Pop(@),
                  !.fstats.fail = _fetch_stats_update(@, elapsed),
                  !.interval = MoreInterval(@),
                  !.HEADERS = reset_headers(ua),
                  !.log = Append(@, Ev("fail", elapsed))]
    ELSE IF Overlap(start, S.fetch_start) THEN
        [S EXCEPT !.ret = Raise("ValueError"), !.log = Append(@, Ev("overlap", 0))]
    ELSE IF start THEN
        [S EXCEPT !.fetch_start = Append(@, S.lastget)]
    ELSE
        LET S1 == [S EXCEPT !.fetch_start = Pop(@),
                            !.interval = IF LessThanAvg(elapsed, S.fstats.pass.avg)
                                         THEN LessInterval(@) ELSE @,
                            !.fstats.pass = _fetch_stats_update(@, elapsed),
                            !.log = Append(@, Ev("pass", elapsed))]
        IN  Report(S1, S.flags.STAT_REPORT # 0 /\ S1.fstats.pass.num % 10 = 0, 6)

\* the wait itself is logged: v = 1 when there was a previous fetch to
\* wait for (at least _MIN_DELAY), 0 on the very first fetch
_be_nice(S) ==
    LET S1 == Report(S, S.lastget # 0 /\ S.flags.TIME_REPORT, 2)
        S2 == Report(S1, S.lastget # 0 /\ S.flags.SEE_FETCH, 3)
    IN  [S2 EXCEPT !.lastget = @ + 1,
                   !.log = Append(@, Ev("nice", IF S.lastget # 0 THEN 1 ELSE 0))]

CacheEverything(status) == TRUE

CacheEverythingExceptTemporaryFails(status) == status < 500

UrlCachedNever(url_cache, url) == FALSE

UrlCached(url_cache, url) == url \in DOMAIN url_cache

\* _fetch_url from the return or the exception of requests.get on
Received(S3, url, net) ==
    IF net.kind = "Timeout" THEN
        [_fetch_stats(S3, FALSE, TRUE, FALSE, net.elapsed, net.ua)
            EXCEPT !.ret = Raise("Timeout")]
    ELSE IF net.kind = "ConnectionError" THEN
        [S3 EXCEPT !.ret = Raise("ConnectionError")]
    ELSE IF CacheEverythingExceptTemporaryFails(net.status) THEN
        [_fetch_stats(S3, FALSE, FALSE, FALSE, net.elapsed, net.ua)
            EXCEPT !.url_cache = Put(@, url, [status |-> net.status, body |-> net.body]),
                   !.ret = Return(net.status, net.body)]
    ELSE
        [_fetch_stats(S3, FALSE, TRUE, FALSE, net.elapsed, net.ua)
            EXCEPT !.ret = Return(net.status, net.body)]

_fetch_url(S0, url, net) ==
    LET S == Report(S0, S0.flags.DEBUG # 0, 1) IN
    IF UrlCached(S.url_cache, url) THEN
        LET r == S.url_cache[url]
            S1 == _fetch_stats(S, FALSE, FALSE, TRUE, 0, S.HEADERS)
        IN  [S1 EXCEPT !.ret = Return(r.status, r.body),
                       !.log = Append(S1.log, Ev("cached", r.status))]
    ELSE
        LET S1 == Report(_be_nice(S), S.flags.SEE_FETCH, 4)
            S2 == _fetch_stats(S1, TRUE, FALSE, FALSE, 0, S1.HEADERS)
            S3 == Report([S2 EXCEPT !.log = Append(@, Ev("net", net.status))],
                         S.flags.TIME_REPORT /\ net.kind = "resp", 5)
        IN  IF S2.ret.kind = "ValueError" THEN S2 ELSE Received(S3, url, net)

\* ------------------------------------------------- the instance result cache
\* truth value of a cached object: an empty stores dict is falsy, an
\* exception object is truthy
TruthyOnlyStores(v) == v.kind = "stores" /\ v.body # "empty"

Truthy(v) == ~(v.kind = "stores" /\ v.body = "empty")
IsException(v) == v.kind \in {"ParseException", "URLOpenException"}
CacheGetNever(cache, url) == FALSE

CacheGet(cache, url) == url \in DOMAIN cache /\ Truthy(cache[url])

\* S.ret = NoRet on a normal return, the raised exception otherwise.  The
\* missing-stores branch builds its message from the undefined name
\* storekey, so it ends in a NameError before anything is memoized.
_parse_finance(S, url, content) ==
    IF content = "noscript" THEN
        LET e == V("ParseException", 0, content, "", "")
        IN  [S EXCEPT !.cache = Put(@, url, e), !.ret = e]
    ELSE IF content = "nostores" THEN
        [S EXCEPT !.ret = Raise("NameError")]
    ELSE
        [S EXCEPT !.cache = Put(@, url, V("stores", 0, content, "", "")), !.ret = NoRet]

Idle == [active |-> FALSE, url |-> "", tries |-> 0, rescode |-> 0]

BackoffSleepNoJitter(tries, r) == (2 ^ tries) \div 2

BackoffSleep(tries, r) == (2 ^ tries) \div 2 + r

NotFoundNever(rescode) == FALSE

NotFoundLastTime(rescode) == rescode = 404

\* _fetch_finance from the top of loop iteration `tries`, up to the next
\* network call (S.call.active) or to the for-else that memoizes and
\* raises the URLOpenException
RECURSIVE FetchFinanceLoop(_, _, _, _)
FetchFinanceLoop(S, url, tries, rescode) ==
    IF tries >= READ_TRIES THEN
        LET e == V("URLOpenException", rescode, "", "", "")
        IN  [S EXCEPT !.cache = Put(@, url, e), !.ret = e, !.call = Idle]
    ELSE IF NotFoundLastTime(rescode) THEN
        FetchFinanceLoop([S EXCEPT !.log = Append(@, Ev("skip", tries))], url, tries + 1, rescode)
    ELSE
        [S EXCEPT !.call = [active |-> TRUE, url |-> url, tries |-> tries, rescode |-> rescode]]

\* the rest of iteration S.call.tries: backoff sleep, fetch_url, parse on 200
FetchFinanceTry(S, net, r) ==
    LET url == S.call.url
        tries == S.call.tries
        S1 == IF tries # 0
              THEN [S EXCEPT !.log = Append(@, Ev("sleep", BackoffSleep(tries, r)))]
              ELSE S
        S2 == _fetch_url(S1, url, net)
    IN  IF S2.ret.kind # "return" THEN [S2 EXCEPT !.call = Idle]
        ELSE IF S2.ret.status = 200 THEN
            [_parse_finance(S2, url, S2.ret.body) EXCEPT !.call = Idle]
        ELSE FetchFinanceLoop([S2 EXCEPT !.ret = NoRet], url, tries + 1, S2.ret.status)

\* _scrape_finance once _fetch_finance has returned or raised, or was not
\* needed: tag a caught failure, then raise the memoized exception or
\* return the memoized stores
ScrapeFinish(S, url) ==
    LET S1 == IF S.ret.kind = "URLOpenException"
              THEN [S EXCEPT !.cache[url].url = url, !.cache[url].info = "none"]
              ELSE IF S.ret.kind = "ParseException"
              THEN [S EXCEPT !.cache[url].url = url, !.cache[url].info = "none-ok"]
              ELSE S
    IN  IF S.ret.kind \notin {"none", "URLOpenException", "ParseException"} THEN S
        ELSE [S1 EXCEPT !.ret = S1.cache[url]]

\* one step of a _scrape_finance call that is inside _fetch_finance
ScrapeStep(S, net, r) ==
    LET url == S.call.url
        S1 == FetchFinanceTry(S, net, r)
    IN  IF S1.call.active THEN S1 ELSE ScrapeFinish(S1, url)

\* the first try has no backoff sleep, so it draws no jitter
_scrape_finance(S, url, net) ==
    IF CacheGet(S.cache, url) THEN ScrapeFinish(S, url)
    ELSE ScrapeStep(FetchFinanceLoop(S, url, 0, 0), net, 0)

\* ------------------------------------------------------------ state record
Cur(log) ==
    [url_cache |-> _url_cache, cache |-> _cache, fstats |-> _fstats,
     interval |-> _interval, lastget |-> _lastget, fetch_start |-> _fetch_start,
     HEADERS |-> HEADERS, call |-> call, flags |-> flags, log |-> log, ret |-> NoRet]

Commit(S) ==
    /\ _url_cache' = S.url_cache
    /\ _cache' = S.cache
    /\ _fstats' = S.fstats
    /\ _interval' = S.interval
    /\ _lastget' = S.lastget
    /\ _fetch_start' = S.fetch_start
    /\ HEADERS' = S.HEADERS
    /\ call' = S.call
    /\ flags' = S.flags

\* the module and the instance right after import and construction
Fresh(ua) ==
    [url_cache |-> EmptyDict, cache |-> EmptyDict,
     fstats |-> [pass |-> EmptyBucket, fail |-> EmptyBucket, cached |-> 0],
     interval |-> _MIN_INTERVAL, lastget |-> 0, fetch_start |-> <<>>,
     HEADERS |-> reset_headers(ua), call |-> Idle, flags |-> NoFlags, log |-> <<>>,
     ret |-> NoRet]

\* what `last` remembers of the state a call started in
Pre ==
    [pass |-> _fstats.pass.num, fail |-> _fstats.fail.num, cached |-> _fstats.cached,
     interval |-> _interval]

NoCall ==
    [seq |-> 0, op |-> "init", url |-> "", ret |-> NoRet, log |-> <<>>, done |-> TRUE,
     rep |-> FALSE, pre |-> [pass |-> 0, fail |-> 0, cached |-> 0, interval |-> 0],
     had |-> {}]

\* rep: the call repeats the operation and the URL of the call before it
NewCall(op, url, S, had) ==
    [seq |-> last.seq + 1, op |-> op, url |-> url, ret |-> S.ret, log |-> S.log,
     done |-> ~S.call.active, rep |-> (last.op = op /\ last.url = url),
     pre |-> Pre, had |-> had]

Init ==
    /\ _url_cache = EmptyDict
    /\ _cache = EmptyDict
    /\ _fstats = [pass |-> EmptyBucket, fail |-> EmptyBucket, cached |-> 0]
    /\ _interval = _MIN_INTERVAL
    /\ _lastget = 0
    /\ _fetch_start = <<>>
    /\ HEADERS = reset_headers("My User Agent")
    /\ call = Idle
    /\ last = NoCall
    /\ data = NoData /\ data_obj = <<>> /\ soup = <<>>
    /\ evpkdf = NoKdf /\ api = NoApi
    /\ flags = NoFlags /\ batch = NoBatch /\ threads = NoThreads

CanCall == ~call.active /\ last.seq < MaxCalls

\* a direct fetch_url / _fetch_url call
FetchUrl(url, nets) ==
    /\ CanCall
    /\ \E net \in nets :
        \E S \in {_fetch_url(Cur(<<>>), url, net)} :
            /\ Commit(S)
            /\ last' = NewCall("fetch_url", url, S, {})
    /\ UNCHANGED <<standalone, pw_args, callers>>

\* a _scrape_finance call, up to its end or to the network call of its
\* second try
ScrapeFinance(url, nets) ==
    /\ CanCall
    /\ \E net \in nets :
        \E S \in {_scrape_finance(Cur(<<>>), url, net)} :
            /\ Commit(S)
            /\ last' = NewCall("_scrape_finance", url, S, {})
    /\ UNCHANGED <<standalone, pw_args, callers>>

\* the next try of the _scrape_finance call in progress
ScrapeRetry(nets) ==
    /\ call.active
    /\ \E net \in nets, r \in BackoffJitter :
        \E S \in {ScrapeStep(Cur(last.log), net, r)} :
            /\ Commit(S)
            /\ last' = [last EXCEPT !.ret = S.ret, !.log = S.log, !.done = ~S.call.active]
    /\ UNCHANGED <<standalone, pw_args, callers>>

cache_clear ==
    /\ CanCall
    /\ _cache' = EmptyDict
    /\ _url_cache' = EmptyDict
    /\ last' = NewCall("cache_clear", "", Cur(<<>>), DOMAIN _cache \cup DOMAIN _url_cache)
    /\ UNCHANGED <<_fstats, _interval, _lastget, _fetch_start, HEADERS, call, flags>>
    /\ UNCHANGED <<standalone, pw_args, callers>>

Next ==
    \/ \E url \in URLS : FetchUrl(url, CacheNets)
    \/ \E url \in URLS : ScrapeFinance(url, CacheNets)
    \/ ScrapeRetry(CacheNets)
    \/ cache_clear

Spec == Init /\ [][Next]_vars

\* ------------------------------------------------------------------ pacing
\* The pacing runs start after k consecutive timeouts of 250 ms on u1, so
\* that the interval can be anywhere on its way from _MIN_INTERVAL to
\* _MAX_INTERVAL, and draw passes and failures at both latencies.
MaxPriorFails == 16

PriorTimeout == [kind |-> "Timeout", status |-> 0, body |-> "", elapsed |-> 250, ua |-> "My User Agent"]

RECURSIVE AfterFails(_)
AfterFails(k) ==
    IF k = 0 THEN Fresh("My User Agent")
    ELSE [_fetch_url(AfterFails(k - 1), "u1", PriorTimeout) EXCEPT !.log = <<>>, !.ret = NoRet]

PacingResponses ==
    {r \in Responses : r.kind # "resp" \/ r.status = 500 \/ r.body = "stores"}
PacingNets == Outcomes(PacingResponses, Latencies, UAs)

InitPacing ==
    /\ \E k \in 0..MaxPriorFails :
        LET S == AfterFails(k)
        IN  /\ _url_cache = S.url_cache
            /\ _cache = S.cache
            /\ _fstats = S.fstats
            /\ _interval = S.interval
            /\ _lastget = S.lastget
            /\ _fetch_start = S.fetch_start
            /\ HEADERS = S.HEADERS
            /\ call = S.call
    /\ last = NoCall
    /\ data = NoData /\ data_obj = <<>> /\ soup = <<>>
    /\ evpkdf = NoKdf /\ api = NoApi
    /\ flags = NoFlags /\ batch = NoBatch /\ threads = NoThreads

NextPacing ==
    \/ \E url \in URLS : FetchUrl(url, PacingNets)
    \/ cache_clear

SpecPacing == InitPacing /\ [][NextPacing]_vars

\* ------------------------------------------------------------ key discovery
\* An ordered mapping (a dict) is a sequence of items; a string is a
\* sequence of tokens, '' is <<>>.
Item(k, v) == [k |-> k, v |-> v]
Keys(d) == [i \in 1..Len(d) |-> d[i].k]
HasKey(d, k) == \E i \in 1..Len(d) : d[i].k = k
Get(d, k) == d[CHOOSE i \in 1..Len(d) : d[i].k = k].v
DelEverything(d, k) == <<>>

Del(d, k) == LET Keep(it) == it.k # k IN SelectSeq(d, Keep)
Index(keys, k) == CHOOSE i \in 1..Len(keys) : keys[i] = k
All(parts) == \A i \in 1..Len(parts) : parts[i] # <<>>
RECURSIVE Join(_)
Join(parts) == IF parts = <<>> THEN <<>> ELSE Head(parts) \o Join(Tail(parts))

Password(pw) == V("password", 0, pw, "", "")
NoEncKey == V("DecryptException", 0, <<"No enc key">>, "", "")

\* the structured strategy: _cr is JSON text with words and sigBytes; the
\* password is the hex of a PBKDF2 digest of _cs salted with the words
SigBytesOk(cr) == cr = <<"cr_ok">>
Pbkdf2Hex(cs, cr) == <<"pbkdf2">> \o cs \o cr

\* the singleton strategy: the generator skips the two reserved names, the
\* loop breaks on a second value, the else clause runs only without a break
IsOther(it) == it.k \notin {"context", "plugins"}
OthersWithValue(d) == LET F(it) == IsOther(it) /\ it.v # <<>> IN SelectSeq(d, F)

Others(d) == SelectSeq(d, IsOther)
SingletonParts(d) == IF Others(d) = <<>> THEN <<>> ELSE <<Others(d)[1].v>>
SingletonYieldsNever(d) == FALSE

SingletonYields(d) ==
    /\ Len(Others(d)) <= 1
    /\ Len(SingletonParts(d)) = 1 /\ All(SingletonParts(d))

\* the fixed-offset strategy on the mapping without 'context'
AfterPlugins(keys) ==
    LET plugins == Index(keys, "plugins")
    IN  SubSeq(keys, plugins + 1, Min2(plugins + 5, Len(keys)))
FourPartsAnyLength(parts) == All(parts)

FourParts(parts) == Len(parts) = 4 /\ All(parts)
FixedParts(d) == [i \in 1..Len(AfterPlugins(Keys(d))) |-> Get(d, AfterPlugins(Keys(d))[i])]

\* the script strategy: the scripts whose src starts with the main.js
\* prefix are fetched in page order.  fetch_url hands back the text of the
\* response, a str, so content.decode ends in an AttributeError for every
\* script that arrives with status 200; any other status moves on to the
\* next script, and an error of _fetch_url leaves through the loop.
IsMainJs(tag) == tag.main
RECURSIVE MineScripts(_, _, _)
MineScripts(S, tags, nets) ==
    IF tags = <<>> THEN [S EXCEPT !.ret = NoEncKey]
    ELSE IF ~IsMainJs(Head(tags)) THEN MineScripts(S, Tail(tags), nets)
    ELSE LET S1 == _fetch_url(S, Head(tags).src, Head(nets))
         IN  IF S1.ret.kind # "return" THEN S1
             ELSE IF S1.ret.status = 200 THEN [S1 EXCEPT !.ret = Raise("AttributeError")]
             ELSE MineScripts([S1 EXCEPT !.ret = NoRet], Tail(tags), Tail(nets))

\* the result: the module state with the password or the error in ret, and
\* the caller's mapping as the call leaves it
_find_enckey(S, d, tags, nets) ==
    IF HasKey(d, "_cs") /\ HasKey(d, "_cr") THEN
        [st |-> [S EXCEPT !.ret = IF SigBytesOk(Get(d, "_cr"))
                                  THEN Password(Pbkdf2Hex(Get(d, "_cs"), Get(d, "_cr")))
                                  ELSE Raise("AssertionError")],
         data_obj |-> d]
    ELSE IF SingletonYields(d) THEN
        [st |-> [S EXCEPT !.ret = Password(Join(SingletonParts(d)))], data_obj |-> d]
    ELSE
        LET d1 == Del(d, "context")
        IN  IF HasKey(d1, "plugins") /\ FourParts(FixedParts(d1)) THEN
                [st |-> [S EXCEPT !.ret = Password(Join(FixedParts(d1)))], data_obj |-> d1]
            ELSE
                [st |-> MineScripts(S, tags, nets), data_obj |-> d1]

\* ----------------------------------------------------- key discovery inputs
\* at most MaxAfter keys follow the place of the marker
MaxAfter == 5
AfterNames == <<"k1", "k2", "k3", "k4", "k5", "k6", "k7">>
Opt(present, it) == IF present THEN <<it>> ELSE <<>>
Str(present, tok) == IF present THEN <<tok>> ELSE <<>>
\* context first or right after the marker; _cs; _cr well-formed or with a
\* wrong sigBytes; one key k0 before the marker, empty or not; the marker;
\* keys k1.. after it, each empty or not
Mapping(ctx, cs, cr, k0, plug, vals) ==
    Opt(ctx = "front", Item("context", <<"ctx">>))
    \o Opt(cs, Item("_cs", <<"cs">>))
    \o Opt(cr # "no", Item("_cr", <<cr>>))
    \o Opt(k0 # "no", Item("k0", Str(k0 = "set", "v0")))
    \o Opt(plug, Item("plugins", <<"plg">>))
    \o Opt(ctx = "after", Item("context", <<"ctx">>))
    \o [i \in 1..Len(vals) |-> Item(AfterNames[i], Str(vals[i], AfterNames[i]))]
BoolSeqs(n) == UNION {[1..m -> BOOLEAN] : m \in 0..n}
DataObjs ==
    {Mapping(ctx, cs, cr, k0, plug, vals) :
        ctx \in {"no", "front", "after"}, cs \in BOOLEAN, cr \in {"no", "cr_ok", "cr_badsig"},
        k0 \in {"no", "empty", "set"}, plug \in BOOLEAN, vals \in BoolSeqs(MaxAfter)}

Tag(src, main) == [src |-> src, main |-> main]
Soups == {<<>>, <<Tag("js1", TRUE)>>, <<Tag("other", FALSE), Tag("js1", TRUE), Tag("js2", TRUE)>>}
ScriptResponses ==
    {[kind |-> "resp", status |-> 200, body |-> "mainjs"],
     [kind |-> "resp", status |-> 404, body |-> ErrBody],
     [kind |-> "resp", status |-> 500, body |-> ErrBody],
     [kind |-> "Timeout", status |-> 0, body |-> ""]}
ScriptNets == Outcomes(ScriptResponses, {50}, {"My User Agent"})

InitKeys ==
    /\ _url_cache = EmptyDict
    /\ _cache = EmptyDict
    /\ _fstats = [pass |-> EmptyBucket, fail |-> EmptyBucket, cached |-> 0]
    /\ _interval = _MIN_INTERVAL
    /\ _lastget = 0
    /\ _fetch_start = <<>>
    /\ HEADERS = reset_headers("My User Agent")
    /\ call = Idle
    /\ last = NoCall
    /\ data = NoData
    /\ data_obj \in DataObjs
    /\ soup \in Soups
    /\ evpkdf = NoKdf /\ api = NoApi
    /\ flags = NoFlags /\ batch = NoBatch /\ threads = NoThreads

\* one _find_enckey(data_obj, soup) call
FindEnckey ==
    /\ last.seq = 0
    /\ \E n1 \in ScriptNets, n2 \in ScriptNets :
        \E R \in {_find_enckey(Cur(<<>>), data_obj, soup, <<n1, n2>>)} :
            /\ Commit(R.st)
            /\ last' = NewCall("_find_enckey", "", R.st, {})
            /\ data_obj' = R.data_obj
    /\ UNCHANGED <<standalone, data, soup, callers>>

NextKeys == FindEnckey

SpecKeys == InitKeys /\ [][NextKeys]_vars

\* ----------------------------------------------------------------- decrypt
\* A byte is a literal Lit(n), a byte of a salt, of a digest, of a
\* plaintext (a character Chr or a padding byte Pad) or of a ciphertext.
B64(bytes) == [kind |-> "b64", chars |-> <<>>, bytes |-> bytes]
Lit(n) == [lit |-> n]
Chr(c) == [c |-> c]
Pad(n) == [pad |-> n]
B64Alphabet ==
    <<"A", "B", "C", "D", "E", "F", "G", "H", "I", "J", "K", "L", "M",
      "N", "O", "P", "Q", "R", "S", "T", "U", "V", "W", "X", "Y", "Z",
      "a", "b", "c", "d", "e", "f", "g", "h", "i", "j", "k", "l", "m",
      "n", "o", "p", "q", "r", "s", "t", "u", "v", "w", "x", "y", "z",
      "0", "1", "2", "3", "4", "5", "6", "7", "8", "9", "+", "/">>
\* data[:3]: of a base64 text, the three characters that encode the first
\* two bytes and the top two bits of the third
First3(d) ==
    IF d.kind = "text" THEN SubSeq(d.chars, 1, Min2(3, Len(d.chars)))
    ELSE LET b1 == d.bytes[1].lit
             b2 == d.bytes[2].lit
             b3 == d.bytes[3].lit
         IN  <<B64Alphabet[(b1 \div 4) + 1],
               B64Alphabet[(b1 % 4) * 16 + (b2 \div 16) + 1],
               B64Alphabet[(b2 % 16) * 4 + (b3 \div 64) + 1]>>
NotEncryptedNever(d) == FALSE

NotEncrypted(d) == First3(d) # <<"U", "2", "F">>

\* b"Salted__"
Salted == <<Lit(83), Lit(97), Lit(108), Lit(116), Lit(101), Lit(100), Lit(95), Lit(95)>>
HasMagic(encrypted) == SubSeq(encrypted, 1, Min2(8, Len(encrypted))) = Salted
SaltOfMagic(encrypted) == SubSeq(encrypted, 1, 8)

SaltOf(encrypted) == SubSeq(encrypted, 9, Min2(16, Len(encrypted)))
CipherOf(encrypted) == SubSeq(encrypted, 17, Len(encrypted))

\* hashlib md5 of block || password || salt, as a term; block is <<>> for
\* the None of the first round, else the one digest before
DigestSize == 16
Md5(block, password, salt) == [md5 |-> <<block, password, salt>>]
DigestBytes(h) == [i \in 1..DigestSize |-> [of |-> h, at |-> i]]

RECURSIVE EvpLoop(_, _, _, _, _)
EvpLoop(key_iv, block, password, salt, final_length) ==
    IF Len(key_iv) >= final_length THEN key_iv
    ELSE LET h == Md5(block, password, salt)
         IN  EvpLoop(key_iv \o DigestBytes(h), <<h>>, password, salt, final_length)

\* iterations = 1, hashAlgorithm = "md5"
_EVPKDFFromStart(password, salt, keySize, ivSize) ==
    LET key_iv == EvpLoop(<<>>, <<>>, password, salt, keySize + ivSize)
    IN  [key |-> SubSeq(key_iv, 1, keySize), iv |-> SubSeq(key_iv, 1, ivSize)]

_EVPKDF(password, salt, keySize, ivSize) ==
    LET final_length == keySize + ivSize
        key_iv == EvpLoop(<<>>, <<>>, password, salt, final_length)
    IN  [key |-> SubSeq(key_iv, 1, keySize), iv |-> SubSeq(key_iv, keySize + 1, final_length)]

\* OpenSSL's EVP_BytesToKey for AES-256-CBC with md5 and one round: the
\* key and IV under which an envelope's ciphertext was made
EVP_BytesToKey(password, salt) ==
    LET d0 == Md5(<<>>, password, salt)
        d1 == Md5(<<d0>>, password, salt)
        d2 == Md5(<<d1>>, password, salt)
    IN  [key |-> DigestBytes(d0) \o DigestBytes(d1), iv |-> DigestBytes(d2)]

\* AES in CBC mode.  A ciphertext byte names the password and salt its key
\* and IV were derived from, its place and the plaintext byte it hides;
\* under any other key or IV, or out of place, it decrypts to garbage.
BlockSize == 16
Garbage == Chr("?")
AesCbcEncrypt(plaintext, password, salt) ==
    [i \in 1..Len(plaintext) |-> [pw |-> password, salt |-> salt, at |-> i, b |-> plaintext[i]]]
AesCbcDecrypt(ciphertext, key, iv) ==
    [i \in 1..Len(ciphertext) |->
        IF /\ EVP_BytesToKey(ciphertext[i].pw, ciphertext[i].salt) = [key |-> key, iv |-> iv]
           /\ ciphertext[i].at = i
        THEN ciphertext[i].b ELSE Garbage]

\* PKCS#7: the last byte is the padding length n in 1..BlockSize and the
\* last n bytes all have that value
Pkcs7Pad(text) ==
    LET n == BlockSize - (Len(text) % BlockSize)
    IN  text \o [i \in 1..n |-> Pad(n)]
PadOk(plaintext) ==
    /\ plaintext # <<>>
    /\ \E n \in 1..BlockSize :
        /\ n <= Len(plaintext)
        /\ \A i \in (Len(plaintext) - n + 1)..Len(plaintext) : plaintext[i] = Pad(n)
unpad(plaintext) ==
    LET n == CHOOSE n \in 1..BlockSize : plaintext[Len(plaintext)] = Pad(n)
    IN  SubSeq(plaintext, 1, Len(plaintext) - n)

\* the outcome of cipher.decrypt and unpad: the unpadded bytes, or the
\* ValueError of a ciphertext that is not a whole number of blocks or of a
\* wrong padding
_decrypt(ciphertext, key, iv) ==
    IF Len(ciphertext) % BlockSize # 0 THEN [ok |-> FALSE, bytes |-> <<>>]
    ELSE LET plaintext == AesCbcDecrypt(ciphertext, key, iv)
         IN  IF PadOk(plaintext) THEN [ok |-> TRUE, bytes |-> unpad(plaintext)]
             ELSE [ok |-> FALSE, bytes |-> <<>>]

\* JSON, for the structured values of the model: an object of one-letter
\* keys with one-digit values, written as json.dumps writes it
JsonKeys == {"a", "b"}
JsonDigits == {"1", "2"}
DumpItem(it) == <<"\"", it.k, "\"", ":", " ", it.v>>
RECURSIVE DumpItems(_)
DumpItems(v) ==
    IF v = <<>> THEN <<>>
    ELSE IF Len(v) = 1 THEN DumpItem(v[1])
    ELSE DumpItem(v[1]) \o <<",", " ">> \o DumpItems(Tail(v))
dumps(v) == <<"{">> \o DumpItems(v) \o <<"}">>

\* the items between the braces: [ok, v]
RECURSIVE LoadItems(_)
LoadItems(cs) ==
    IF /\ Len(cs) >= 6
       /\ cs[1] = "\"" /\ cs[2] \in JsonKeys /\ cs[3] = "\"" /\ cs[4] = ":" /\ cs[5] = " "
       /\ cs[6] \in JsonDigits
    THEN IF Len(cs) = 6 THEN [ok |-> TRUE, v |-> <<Item(cs[2], cs[6])>>]
         ELSE IF Len(cs) > 8 /\ cs[7] = "," /\ cs[8] = " "
         THEN LET r == LoadItems(SubSeq(cs, 9, Len(cs)))
              IN  [ok |-> r.ok, v |-> <<Item(cs[2], cs[6])>> \o r.v]
         ELSE [ok |-> FALSE, v |-> <<>>]
    ELSE [ok |-> FALSE, v |-> <<>>]
IsChr(b) == DOMAIN b = {"c"}
\* loads of the bytes of a text: [ok, v]
loads(bytes) ==
    IF \E i \in 1..Len(bytes) : ~IsChr(bytes[i]) THEN [ok |-> FALSE, v |-> <<>>]
    ELSE LET cs == [i \in 1..Len(bytes) |-> bytes[i].c]
         IN  IF Len(cs) < 2 \/ cs[1] # "{" \/ cs[Len(cs)] # "}" THEN [ok |-> FALSE, v |-> <<>>]
             ELSE IF Len(cs) = 2 THEN [ok |-> TRUE, v |-> <<>>]
             ELSE LoadItems(SubSeq(cs, 2, Len(cs) - 1))

KeySize == 32
IvSize == 16

\* decrypt(data, data_obj, soup): the module state with the result or the
\* error in ret, and the caller's mapping as the call leaves it
decrypt(S, d, obj, tags, nets) ==
    IF NotEncrypted(d) THEN
        [st |-> [S EXCEPT !.ret = V("data", 0, d, "", "")], data_obj |-> obj]
    ELSE
        LET K == _find_enckey(S, obj, tags, nets)
            password == K.st.ret.body
            encrypted == d.bytes
            kdf == _EVPKDF(password, SaltOf(encrypted), KeySize, IvSize)
            plain == _decrypt(CipherOf(encrypted), kdf.key, kdf.iv)
            value == loads(plain.bytes)
            Ends(ret) == [st |-> [K.st EXCEPT !.ret = ret], data_obj |-> K.data_obj]
        IN  IF K.st.ret.kind # "password" THEN K
            ELSE IF d.kind # "b64" THEN Ends(Raise("binascii.Error"))
            ELSE IF ~HasMagic(encrypted) THEN Ends(Raise("AssertionError"))
            ELSE IF ~plain.ok THEN Ends(Raise("ValueError"))
            ELSE IF ~value.ok THEN Ends(Raise("JSONDecodeError"))
            ELSE Ends(V("value", 0, value.v, "", ""))

\* ----------------------------------------------------------- decrypt inputs
JsonValues ==
    {<<>>, <<Item("a", "1")>>, <<Item("a", "1"), Item("b", "2")>>}
Salts == {"s1", "s2"}
SaltBytes(s) == [i \in 1..8 |-> [salt |-> s, at |-> i]]
ChrBytes(cs) == [i \in 1..Len(cs) |-> Chr(cs[i])]
\* the mappings handed to decrypt: a single key, four keys after the
\* marker, none after it but a context to delete, _cs with _cr
DecryptObjs ==
    {Mapping("no", FALSE, "no", "set", FALSE, <<>>),
     Mapping("front", FALSE, "no", "no", TRUE, <<TRUE, TRUE, TRUE, TRUE>>),
     Mapping("front", FALSE, "no", "no", TRUE, <<>>),
     Mapping("no", TRUE, "cr_ok", "no", FALSE, <<>>)}
Passwords == {<<"v0">>, <<"k1", "k2", "k3", "k4">>}

\* an envelope: the base64 text of magic, salt and ciphertext
Envelope(magic, s, ciphertext) == B64(magic \o SaltBytes(s) \o ciphertext)
Encrypt(v, p, s) ==
    Envelope(Salted, s, AesCbcEncrypt(Pkcs7Pad(ChrBytes(dumps(v))), p, SaltBytes(s)))
\* b"Salty___" has the first three base64 characters of b"Salted__",
\* b"Pepper__" has not
Salty == <<Lit(83), Lit(97), Lit(108), Lit(116), Lit(121), Lit(95), Lit(95), Lit(95)>>
Pepper == <<Lit(80), Lit(101), Lit(112), Lit(112), Lit(101), Lit(114), Lit(95), Lit(95)>>
GoodCipher == AesCbcEncrypt(Pkcs7Pad(ChrBytes(dumps(<<Item("a", "1")>>))), <<"v0">>, SaltBytes("s1"))
Envelopes ==
    {Encrypt(v, p, s) : v \in JsonValues, p \in Passwords, s \in Salts}
    \cup {Encrypt(<<>>, <<"old">>, "s1"),
          Envelope(Salty, "s1", GoodCipher),
          Envelope(Pepper, "s1", GoodCipher),
          Envelope(Salted, "s1", SubSeq(GoodCipher, 1, Len(GoodCipher) - 1)),
          Envelope(Salted, "s1",
                   AesCbcEncrypt(ChrBytes(dumps(<<Item("a", "1"), Item("b", "2")>>)),
                                 <<"v0">>, SaltBytes("s1"))),
          Envelope(Salted, "s1", AesCbcEncrypt(Pkcs7Pad(ChrBytes(<<"{", "x", "}">>)),
                                               <<"v0">>, SaltBytes("s1"))),
          Text(<<>>), Text(<<"{", "}">>), Text(dumps(<<Item("a", "1")>>)),
          Text(<<"U", "2", "F">>)}

InitDecrypt ==
    /\ _url_cache = EmptyDict
    /\ _cache = EmptyDict
    /\ _fstats = [pass |-> EmptyBucket, fail |-> EmptyBucket, cached |-> 0]
    /\ _interval = _MIN_INTERVAL
    /\ _lastget = 0
    /\ _fetch_start = <<>>
    /\ HEADERS = reset_headers("My User Agent")
    /\ call = Idle
    /\ last = NoCall
    /\ data \in Envelopes
    /\ data_obj \in DecryptObjs
    /\ soup \in {<<>>, <<Tag("js1", TRUE)>>}
    /\ evpkdf = NoKdf /\ api = NoApi
    /\ flags = NoFlags /\ batch = NoBatch /\ threads = NoThreads

\* one decrypt(data, data_obj, soup) call
Decrypt ==
    /\ last.seq = 0
    /\ \E n1 \in ScriptNets, n2 \in ScriptNets :
        \E R \in {decrypt(Cur(<<>>), data, data_obj, soup, <<n1, n2>>)} :
            /\ Commit(R.st)
            /\ last' = NewCall("decrypt", "", R.st, {})
            /\ data_obj' = R.data_obj
    /\ UNCHANGED <<standalone, data, soup, callers>>

NextDecrypt == Decrypt

SpecDecrypt == InitDecrypt /\ [][NextDecrypt]_vars

\* ----------------------------------------------------------------- _EVPKDF
\* One _EVPKDF call with one iteration of md5, over passwords and salts of
\* several lengths (the empty ones included) and over sizes below, at and
\* above the multiples of the digest size.
KdfPasswords == Passwords \cup {<<>>}
KdfSalts == {SaltBytes("s1"), SubSeq(SaltBytes("s2"), 1, 3), <<>>}
KeySizes == {0, 1, 16, 24, 32, 33}
IvSizes == {0, 8, 16, 17}

InitKdf ==
    /\ _url_cache = EmptyDict
    /\ _cache = EmptyDict
    /\ _fstats = [pass |-> EmptyBucket, fail |-> EmptyBucket, cached |-> 0]
    /\ _interval = _MIN_INTERVAL
    /\ _lastget = 0
    /\ _fetch_start = <<>>
    /\ HEADERS = reset_headers("My User Agent")
    /\ call = Idle
    /\ last = NoCall
    /\ data = NoData /\ data_obj = <<>> /\ soup = <<>>
    /\ flags = NoFlags /\ batch = NoBatch /\ threads = NoThreads
    /\ api = NoApi
    /\ \E p \in KdfPasswords, s \in KdfSalts, k \in KeySizes, v \in IvSizes :
        evpkdf = [NoKdf EXCEPT !.password = p, !.salt = s, !.keySize = k, !.ivSize = v]

\* the hashes the loop computed, in order: each one filled DigestSize bytes
\* of key_iv
BlocksOf(key_iv) ==
    [j \in 1..(Len(key_iv) \div DigestSize) |-> key_iv[(j - 1) * DigestSize + 1].of]

\* _EVPKDF(password, salt, keySize, ivSize, 1, "md5")
Evpkdf ==
    /\ ~evpkdf.done
    /\ \E R \in {_EVPKDF(evpkdf.password, evpkdf.salt, evpkdf.keySize, evpkdf.ivSize)} :
        evpkdf' = [evpkdf EXCEPT
            !.done = TRUE, !.key = R.key, !.iv = R.iv,
            !.blocks = BlocksOf(EvpLoop(<<>>, <<>>, evpkdf.password, evpkdf.salt,
                                        evpkdf.keySize + evpkdf.ivSize))]
    /\ last' = [NoCall EXCEPT !.seq = 1, !.op = "_EVPKDF"]
    /\ UNCHANGED <<_url_cache, _cache, _fstats, _interval, _lastget, _fetch_start, HEADERS, call,
                   flags, api>>
    /\ UNCHANGED <<pw_args, callers>>

NextKdf == Evpkdf

SpecKdf == InitKdf /\ [][NextKdf]_vars

\* ------------------------------------------------------------------- stats
\* Runs of fetch_url that keep the log of the whole run, so that the stats
\* can be held against every elapsed time recorded so far.  The elapsed
\* times lie below, at and above the edges of the histogram buckets;
\* LongFetch is a reply that trickles in for 100 s (READ_TIMEOUT bounds the
\* wait for the next bytes, not the whole transfer).
MaxStatCalls == 3
LongFetch == 100000
StatURLS == {"u1", "u2", "u3"}
StatLatencies == {50, 100, 101, 250, LongFetch}
StatResponses ==
    {[kind |-> "resp", status |-> 200, body |-> "stores"],
     [kind |-> "resp", status |-> 500, body |-> ErrBody],
     [kind |-> "Timeout", status |-> 0, body |-> ""]}
StatNets == Outcomes(StatResponses, StatLatencies, {"My User Agent"})

\* a fetch_url call, logged after the calls before it
FetchUrlLogged(url, nets) ==
    /\ last.seq < MaxStatCalls
    /\ \E net \in nets :
        \E S \in {_fetch_url(Cur(last.log), url, net)} :
            /\ Commit(S)
            /\ last' = NewCall("fetch_url", url, S, {})
    /\ UNCHANGED <<standalone, pw_args, callers>>

NextStats == \E url \in StatURLS : FetchUrlLogged(url, StatNets)

SpecStats == Init /\ [][NextStats]_vars

\* ------------------------------------------------- _recursive_api_request
\* One history request after another on a fresh module.  api.rounds counts
\* the calls of _recursive_api_request of one request (the first and its
\* recursions), api.fetches the fetch_url calls of the round in progress.
MaxApiCalls == 3
ApiUrls == {"u1", "u2"}
\* random.randrange(10, 20) of _get_api_data
ApiBackoff == {10, 19}
RetryLimit == 3
NoJson == "None"
\* res_content is the r.text of fetch_url, a str: it has no decode, the
\* AttributeError is swallowed by the bare except and json_content stays
\* None
HasDecode(res_content) == FALSE
TryJson(rescode, res_content) ==
    IF rescode = 200 /\ HasDecode(res_content) THEN "json" ELSE NoJson

\* range(READ_TRIES)
TriesLeftOneMore(tries) == tries <= READ_TRIES

TriesLeft(tries) == tries < READ_TRIES

\* _clean_api_data: without raw data only the empty eventsData; nulldate
\* says that a date field of the result is None
_clean_api_data(raw_data) ==
    IF raw_data = NoJson THEN [prices |-> FALSE, nulldate |-> FALSE]
    ELSE [prices |-> TRUE, nulldate |-> TRUE]

\* _clean_historical_data: None for a None date unless last_attempt
_clean_historical_data(hist_data, last_attempt) ==
    IF hist_data.nulldate /\ ~last_attempt THEN V("None", 0, "", "", "")
    ELSE V("cleaned", 0, IF hist_data.prices THEN "prices" ELSE "events", "",
           IF last_attempt THEN "last_attempt" ELSE "")

\* _recursive_api_request from the return of _get_api_data on: return the
\* cleaned data, or recurse with i + 1, or clean in last-attempt mode
ApiEnd(S, A, json_content) ==
    LET re_data == _clean_api_data(json_content)
        cleaned_re_data == _clean_historical_data(re_data, FALSE)
    IN  IF cleaned_re_data.kind # "None" THEN
            [st |-> [S EXCEPT !.ret = cleaned_re_data], a |-> [A EXCEPT !.active = FALSE]]
        ELSE IF A.i < RetryLimit THEN
            [st |-> [S EXCEPT !.ret = NoRet],
             a |-> [A EXCEPT !.i = @ + 1, !.tries = 0, !.rounds = @ + 1, !.fetches = 0]]
        ELSE
            [st |-> [S EXCEPT !.ret = _clean_historical_data(re_data, TRUE)],
             a |-> [A EXCEPT !.active = FALSE]]

\* iteration A.tries of the loop of _get_api_data, and what follows it up
\* to the next fetch_url or to the end of the request
ApiStep(S, A, url, net, r) ==
    LET S1 == IF A.tries # 0 THEN [S EXCEPT !.log = Append(@, Ev("sleep", r))] ELSE S
        A1 == [A EXCEPT !.fetches = @ + 1]
    IN  LET S2 == _fetch_url(S1, url, net)
        IN  IF S2.ret.kind # "return" THEN [st |-> S2, a |-> [A1 EXCEPT !.active = FALSE]]
            ELSE LET json_content == TryJson(S2.ret.status, S2.ret.body)
                 IN  IF json_content # NoJson THEN ApiEnd(S2, A1, json_content)
                     ELSE IF TriesLeft(A.tries + 1) THEN
                        [st |-> [S2 EXCEPT !.ret = NoRet], a |-> [A1 EXCEPT !.tries = @ + 1]]
                     ELSE ApiEnd(S2, A1, json_content)

InitApi ==
    /\ _url_cache = EmptyDict
    /\ _cache = EmptyDict
    /\ _fstats = [pass |-> EmptyBucket, fail |-> EmptyBucket, cached |-> 0]
    /\ _interval = _MIN_INTERVAL
    /\ _lastget = 0
    /\ _fetch_start = <<>>
    /\ HEADERS = reset_headers("My User Agent")
    /\ call = Idle
    /\ last = NoCall
    /\ data = NoData /\ data_obj = <<>> /\ soup = <<>>
    /\ evpkdf = NoKdf /\ api = NoApi
    /\ flags = NoFlags /\ batch = NoBatch /\ threads = NoThreads

\* _recursive_api_request(hist_obj, up_ticker), up to its end or to its
\* second fetch_url
ApiRequest(url, nets) ==
    /\ ~api.active /\ last.seq < MaxApiCalls
    /\ \E net \in nets :
        \E R \in {ApiStep(Cur(<<>>), [NoApi EXCEPT !.active = TRUE, !.rounds = 1], url, net, 0)} :
            /\ Commit(R.st)
            /\ api' = R.a
            /\ last' = [NewCall("_recursive_api_request", url, R.st, {})
                            EXCEPT !.done = ~R.a.active]
    /\ UNCHANGED <<evpkdf, pw_args, callers>>

\* the request in progress goes on with its next fetch_url
ApiRetry(nets) ==
    /\ api.active
    /\ \E net \in nets, r \in ApiBackoff :
        \E R \in {ApiStep(Cur(last.log), api, last.url, net, r)} :
            /\ Commit(R.st)
            /\ api' = R.a
            /\ last' = [last EXCEPT !.ret = R.st.ret, !.log = R.st.log, !.done = ~R.a.active]
    /\ UNCHANGED <<evpkdf, pw_args, callers>>

NextApi ==
    \/ \E url \in ApiUrls : ApiRequest(url, CacheNets)
    \/ ApiRetry(CacheNets)

SpecApi == InitApi /\ [][NextApi]_vars
\* the interpreter goes on with the loop of a request in progress
SpecApiLive == SpecApi /\ WF_vars(ApiRetry(CacheNets))

\* ------------------------------------------------------------------- flags
\* The flag runs start with any setting of the flags, on a fresh module or
\* after 9 passes on URLs that cache_clear has dropped since, so that the
\* tenth pass and its stats report are within reach.
MaxFlagCalls == 2
FlagSets ==
    [DEBUG : {0, 10}, TIME_REPORT : BOOLEAN, STAT_REPORT : {0, 2}, SEE_FETCH : BOOLEAN]
PriorPasses == {0, 9}
PriorPass == [kind |-> "resp", status |-> 200, body |-> "stores", elapsed |-> 50, ua |-> ""]

RECURSIVE AfterPasses(_)
AfterPasses(k) ==
    IF k = 0 THEN Fresh("My User Agent")
    ELSE [_fetch_url(AfterPasses(k - 1), "u1", PriorPass)
            EXCEPT !.log = <<>>, !.ret = NoRet, !.url_cache = EmptyDict]

FlagResponses ==
    {r \in Responses : r.kind = "Timeout" \/ (r.kind = "resp" /\ r.status \in {200, 500}
                                               /\ r.body \in {"stores", ErrBody})}
FlagNets == Outcomes(FlagResponses, Latencies, {"My User Agent"})

InitFlags ==
    /\ \E k \in PriorPasses :
        LET S == AfterPasses(k)
        IN  /\ _url_cache = S.url_cache
            /\ _cache = S.cache
            /\ _fstats = S.fstats
            /\ _interval = S.interval
            /\ _lastget = S.lastget
            /\ _fetch_start = S.fetch_start
            /\ HEADERS = S.HEADERS
            /\ call = S.call
    /\ last = NoCall
    /\ data = NoData /\ data_obj = <<>> /\ soup = <<>>
    /\ evpkdf = NoKdf /\ api = NoApi
    /\ flags \in FlagSets /\ batch = NoBatch /\ threads = NoThreads

\* set_debug(n): DEBUG becomes n and trace is defined anew; its SEE_FETCH
\* is a local name, the module flag stays as it is
set_debug(n) ==
    /\ CanCall
    /\ flags' = [flags EXCEPT !.DEBUG = n]
    /\ last' = NewCall("set_debug", "", Cur(<<>>), {})
    /\ UNCHANGED <<_url_cache, _cache, _fstats, _interval, _lastget, _fetch_start, HEADERS, call>>
    /\ UNCHANGED <<standalone, pw_args, callers>>

NextFlags ==
    /\ last.seq < MaxFlagCalls
    /\ \/ \E url \in URLS : FetchUrl(url, FlagNets)
       \/ cache_clear
       \/ \E n \in {0, 10} : set_debug(n)

SpecFlags == InitFlags /\ [][NextFlags]_vars

\* ------------------------------------------------------------ pacing wait
\* _be_nice on the clock.  Here _lastget and the log hold times in ms; the
\* time at entry is _lastget plus an elapsed time, random.random() is drawn
\* in 1/RandomUnits, a sleep lasts what was asked plus an overshoot and the
\* liveness callback takes some time of its own.
_MIN_DELAY == 250
_VARIANCE == 2000
SleepChunk == 1100
RandomUnits == 10000
Randoms == {0, 5000, 9999}
Elapsed == {993, 996, 1002, 5500, 6900, 40000}
Overshoots == {0, 40}
CallbackTimes == {0, 700}
NiceIntervals == {_MIN_INTERVAL, 7700, _MAX_INTERVAL}
FirstNow == 50000

\* round(x, 2) of seconds: to the nearest 10 ms, a tie to the even side
Floor10(x) == (x \div 10) * 10

Round10(x) ==
    LET lo == (x \div 10) * 10
    IN  IF x - lo < 5 THEN lo
        ELSE IF x - lo > 5 THEN lo + 10
        ELSE IF (lo \div 10) % 2 = 0 THEN lo ELSE lo + 10

ThisDelay(interval, elapsed, rnd) ==
    Max2(_MIN_DELAY,
         Round10(interval - elapsed - _VARIANCE + (rnd * 2 * _VARIANCE) \div RandomUnits))

KeepWaitingLonger(left) == left > 2500

KeepWaiting(left) == left > 1500

\* the while loop and the last sleep, from time t on
RECURSIVE WaitLoop(_, _, _, _, _)
WaitLoop(log, t, target, over, cb) ==
    IF KeepWaiting(target - t) THEN
        WaitLoop(log \o <<Ev("left", target - t), Ev("sleep", SleepChunk), Ev("cb", 0)>>,
                 t + SleepChunk + over + cb, target, over, cb)
    ELSE
        [log |-> log \o <<Ev("left", target - t), Ev("sleep", Max2(0, target - t))>>,
         t |-> t + Max2(0, target - t) + over]

\* the log ends with the callback and the time _be_nice returns at
_be_nice_clock(lastget, interval, now, rnd, over, cb) ==
    IF lastget # 0 THEN
        LET this_delay == ThisDelay(interval, now - lastget, rnd)
            W == WaitLoop(<<Ev("now", now), Ev("delay", this_delay)>>, now, now + this_delay,
                          over, cb)
        IN  [lastget |-> now + this_delay,
             log |-> W.log \o <<Ev("cb", 0), Ev("return", W.t + cb)>>]
    ELSE
        [lastget |-> now, log |-> <<Ev("now", now), Ev("cb", 0), Ev("return", now + cb)>>]

InitNice ==
    /\ _url_cache = EmptyDict
    /\ _cache = EmptyDict
    /\ _fstats = [pass |-> EmptyBucket, fail |-> EmptyBucket, cached |-> 0]
    /\ _interval \in NiceIntervals
    /\ _lastget \in {0, FirstNow}
    /\ _fetch_start = <<>>
    /\ HEADERS = reset_headers("My User Agent")
    /\ call = Idle
    /\ last = NoCall
    /\ data = NoData /\ data_obj = <<>> /\ soup = <<>>
    /\ evpkdf = NoKdf /\ api = NoApi
    /\ flags = NoFlags /\ batch = NoBatch /\ threads = NoThreads

\* one _be_nice(activitycb) call
BeNice ==
    /\ last.seq = 0
    /\ \E elapsed \in Elapsed, rnd \in Randoms, over \in Overshoots, cb \in CallbackTimes :
        LET now == IF _lastget = 0 THEN FirstNow + elapsed ELSE _lastget + elapsed
            R == _be_nice_clock(_lastget, _interval, now, rnd, over, cb)
        IN  /\ _lastget' = R.lastget
            /\ last' = [NewCall("_be_nice", "", Cur(R.log), {}) EXCEPT !.log = R.log]
    /\ UNCHANGED <<_url_cache, _cache, _fstats, _interval, _fetch_start, HEADERS, call, flags>>
    /\ UNCHANGED <<standalone, pw_args, callers>>

NextNice == BeNice

SpecNice == InitNice /\ [][NextNice]_vars

\* ----------------------------------------------------------------- threads
\* Two threads of one process call _fetch_url, once each, on URLs that are
\* not cached.  The interpreter can switch threads between any two
\* bytecodes, so the test `start and _fetch_start` and the append that
\* follows it are two steps; the pacing wait and the bookkeeping after the
\* network call are taken as one step each.  A start timestamp is the
\* position of its "start" event in the log.
ThreadIds == {1, 2}
IdleThread == [pc |-> "idle", url |-> "", stamp |-> 0, popped |-> 0, ret |-> "none"]
ThreadResponses ==
    {r \in Responses : r.kind # "resp" \/ (r.status \in {200, 500} /\ r.body \in {"stores", ErrBody})}
ThreadNets == Outcomes(ThreadResponses, {50}, {"My User Agent"})

InitThreads ==
    /\ _url_cache = EmptyDict
    /\ _cache = EmptyDict
    /\ _fstats = [pass |-> EmptyBucket, fail |-> EmptyBucket, cached |-> 0]
    /\ _interval = _MIN_INTERVAL
    /\ _lastget = 0
    /\ _fetch_start = <<>>
    /\ HEADERS = reset_headers("My User Agent")
    /\ call = Idle
    /\ last = NoCall
    /\ data = NoData /\ data_obj = <<>> /\ soup = <<>>
    /\ evpkdf = NoKdf /\ api = NoApi
    /\ flags = NoFlags /\ batch = NoBatch
    /\ threads = [t \in ThreadIds |-> IdleThread]

\* what `last` keeps of a threaded run: the events of both threads in the
\* order of their steps
Noted(S) == [last EXCEPT !.seq = 1, !.op = "threads", !.log = S.log]

\* trace, the cache lookup that misses, and the pacing wait
Begin(t, url) ==
    /\ threads[t].pc = "idle" /\ ~UrlCached(_url_cache, url)
    /\ \E S \in {_be_nice(Cur(Append(last.log, Ev("begin", t))))} :
            Commit(S) /\ last' = Noted(S)
    /\ threads' = [threads EXCEPT ![t].pc = "check", ![t].url = url]
    /\ UNCHANGED <<standalone, pw_args, batch>>

\* the test for a request in flight
Check(t) ==
    /\ threads[t].pc = "check"
    /\ LET over == Overlap(TRUE, _fetch_start)
           S == Cur(Append(last.log, Ev(IF over THEN "overlap" ELSE "clear", t)))
       IN  /\ Commit(S) /\ last' = Noted(S)
           /\ threads' = IF over
                         THEN [threads EXCEPT ![t].pc = "done", ![t].ret = "ValueError"]
                         ELSE [threads EXCEPT ![t].pc = "append"]
    /\ UNCHANGED <<standalone, pw_args, batch>>

\* the append of the start timestamp
Start(t) ==
    /\ threads[t].pc = "append"
    /\ LET S0 == Cur(Append(last.log, Ev("start", t)))
           S == [S0 EXCEPT !.fetch_start = Append(@, Len(S0.log))]
       IN  /\ Commit(S) /\ last' = Noted(S)
           /\ threads' = [threads EXCEPT ![t].pc = "get", ![t].stamp = Len(S0.log)]
    /\ UNCHANGED <<standalone, pw_args, batch>>

\* requests.get returns or raises, and _fetch_url goes on to its end
Finish(t, nets) ==
    /\ threads[t].pc = "get"
    /\ \E net \in nets :
        \E S \in {Received(Cur(Append(last.log, Ev("net", net.status))), threads[t].url, net)} :
            /\ Commit(S) /\ last' = Noted(S)
            /\ threads' = [threads EXCEPT
                    ![t].pc = "done", ![t].ret = S.ret.kind,
                    ![t].popped = IF Len(S.fetch_start) < Len(_fetch_start)
                                  THEN _fetch_start[Len(_fetch_start)] ELSE 0]
    /\ UNCHANGED <<standalone, pw_args, batch>>

NextThreads ==
    \E t \in ThreadIds :
        \/ \E url \in URLS : Begin(t, url)
        \/ Check(t)
        \/ Start(t)
        \/ Finish(t, ThreadNets)

SpecThreads == InitThreads /\ [][NextThreads]_vars

\* ------------------------------------------------------------------- batch
\* get_stock_data over self.ticker, for a statement type other than
\* 'history'.  A step runs the loop up to the next network call that a
\* ticker's _scrape_finance waits for, or to the end of the call.
MaxTickers == 2
Tickers == {"T1", "T2"}
TickerLists == UNION {[1..n -> Tickers] : n \in 1..MaxTickers}
\* the page URL of a ticker: one URL per ticker
TickerUrl(tick) == IF tick = "T1" THEN "u1" ELSE "u2"
\* the exceptions the loop of get_stock_data catches
Managed == {"URLOpenException", "ParseException", "ManagedException"}
Dict == V("dict", 0, "", "", "")

\* the loop once the _scrape_finance of ticker B.at + 1 has ended with
\* S.ret: _create_dict_ent makes an entry from any stores, the loop warns
\* about a managed exception and goes on, anything else leaves the call
BatchSettle(S, B) ==
    LET i == B.at + 1
        B1 == [B EXCEPT !.at = i]
    IN  IF S.ret.kind = "stores" THEN
            [st |-> [S EXCEPT !.log = Append(@, Ev("entry", i)),
                              !.ret = IF i = Len(B.ticker) THEN Dict ELSE NoRet],
             b |-> [B1 EXCEPT !.data = @ \cup {B.ticker[i]}, !.active = i < Len(B.ticker)]]
        ELSE IF S.ret.kind \in Managed THEN
            [st |-> [S EXCEPT !.log = Append(@, Ev("warning", i)),
                              !.ret = IF i = Len(B.ticker) THEN Dict ELSE NoRet],
             b |-> [B1 EXCEPT !.active = i < Len(B.ticker)]]
        ELSE
            [st |-> S, b |-> [B1 EXCEPT !.active = FALSE]]

\* the next ticker of the loop, up to the end of its first try
BatchAdvance(S, B, net) ==
    LET i == B.at + 1
        S1 == _scrape_finance([S EXCEPT !.log = Append(@, Ev("tick", i))],
                              TickerUrl(B.ticker[i]), net)
    IN  IF S1.call.active THEN [st |-> S1, b |-> B] ELSE BatchSettle(S1, B)

\* an instance made for a list of tickers
InitBatch ==
    /\ _url_cache = EmptyDict
    /\ _cache = EmptyDict
    /\ _fstats = [pass |-> EmptyBucket, fail |-> EmptyBucket, cached |-> 0]
    /\ _interval = _MIN_INTERVAL
    /\ _lastget = 0
    /\ _fetch_start = <<>>
    /\ HEADERS = reset_headers("My User Agent")
    /\ call = Idle
    /\ last = NoCall
    /\ data = NoData /\ data_obj = <<>> /\ soup = <<>>
    /\ evpkdf = NoKdf /\ api = NoApi
    /\ flags = NoFlags /\ threads = NoThreads
    /\ \E t \in TickerLists : batch = [NoBatch EXCEPT !.ticker = t]

\* a get_stock_data call, through the first try of its first ticker
GetStockData(nets) ==
    /\ CanCall /\ ~batch.active
    /\ \E net \in nets :
        \E R \in {BatchAdvance(Cur(<<>>), [batch EXCEPT !.active = TRUE, !.at = 0, !.data = {}], net)} :
            /\ Commit(R.st)
            /\ batch' = R.b
            /\ last' = [NewCall("get_stock_data", "", R.st, {}) EXCEPT !.done = ~R.b.active]
    /\ UNCHANGED <<standalone, pw_args, threads>>

\* the loop goes on to its next ticker
BatchNext(nets) ==
    /\ batch.active /\ ~call.active
    /\ \E net \in nets :
        \E R \in {BatchAdvance(Cur(last.log), batch, net)} :
            /\ Commit(R.st)
            /\ batch' = R.b
            /\ last' = [last EXCEPT !.ret = R.st.ret, !.log = R.st.log, !.done = ~R.b.active]
    /\ UNCHANGED <<standalone, pw_args, threads>>

\* the next try of the ticker in progress
BatchRetry(nets) ==
    /\ batch.active /\ call.active
    /\ \E net \in nets, r \in BackoffJitter :
        \E S \in {ScrapeStep(Cur(last.log), net, r)} :
        \E R \in {IF S.call.active THEN [st |-> S, b |-> batch] ELSE BatchSettle(S, batch)} :
            /\ Commit(R.st)
            /\ batch' = R.b
            /\ last' = [last EXCEPT !.ret = R.st.ret, !.log = R.st.log, !.done = ~R.b.active]
    /\ UNCHANGED <<standalone, pw_args, threads>>

\* the batch runs draw a page with stores, a page without the script, a
\* 404, a 500 and a timeout
BatchResponses ==
    {r \in Responses : r.kind = "Timeout" \/ (r.kind = "resp" /\ r.status # 403
                                               /\ r.body \in {"stores", "noscript", ErrBody})}
BatchNets == Outcomes(BatchResponses, {50}, {"My User Agent"})

NextBatch ==
    \/ GetStockData(BatchNets)
    \/ BatchNext(BatchNets)
    \/ BatchRetry(BatchNets)

SpecBatch == InitBatch /\ [][NextBatch]_vars

\* ----------------------------------------------------------- log predicates
Has(log, ev) == \E i \in 1..Len(log) : log[i].ev = ev
Count(log, ev) == Cardinality({i \in 1..Len(log) : log[i].ev = ev})
IsNet(e) == e.ev = "net"
\* statuses (0: no response) of the network calls of a log, in order
NetSeq(log) == SelectSeq(log, IsNet)
\* the events a step adds: all of log' for a new call, its tail for a retry
NewEvents ==
    IF last'.seq = last.seq THEN SubSeq(last'.log, Len(last.log) + 1, Len(last'.log))
    ELSE last'.log
StartsCall(op) == last'.seq = last.seq + 1 /\ last'.op = op

\* a call that repeats, right after it, the finished call before it
Repeats ==
    /\ last.done
    /\ last.op \in {"fetch_url", "_scrape_finance"}
    /\ StartsCall(last.op)
    /\ last'.url = last.url

\* the outcomes the caches keep: a response below 500 for fetch_url; parsed
\* stores, a ParseException or a URLOpenException for _scrape_finance
Memoized(c) ==
    \/ c.op = "fetch_url" /\ c.ret.kind = "return" /\ c.ret.status < 500
    \/ c.op = "_scrape_finance"
       /\ c.ret.kind \in {"stores", "ParseException", "URLOpenException"}

\* C1 as stated: the second of two consecutive calls for a URL ends as the
\* first did, whatever the first outcome was, and the two calls together
\* invoke the network at most once.
C1_AnyOutcomeIsMemoized ==
    [][Repeats =>
        /\ last'.done
        /\ last'.ret = last.ret
        /\ Count(last.log, "net") + Count(last'.log, "net") <= 1]_vars

\* C1 amended: when the first of two consecutive calls for a URL ends with
\* a memoized outcome, the second call ends with that same outcome and
\* invokes the network zero times.
C1_MemoizedOutcomeIsRepeated ==
    [][(Repeats /\ Memoized(last)) =>
        /\ last'.done
        /\ last'.ret = last.ret
        /\ ~Has(last'.log, "net")
        /\ ~Has(last'.log, "nice")]_vars

C1_Witness ==
    /\ last.op = "fetch_url" /\ last.rep
    /\ last.log = <<Ev("cached", 200)>>
    /\ last.ret = Return(200, "stores")

\* C2: a fetch_url call that got a response from the network leaves a cache
\* entry (status, body) for the URL exactly when status < 500; and the
\* fetch_url call that follows a response >= 500 for the same URL goes to
\* the network again.
C2_CachedIffBelow500 ==
    [][/\ (StartsCall("fetch_url") /\ Has(last'.log, "net") /\ last'.ret.kind = "return") =>
            /\ (last'.url \in DOMAIN _url_cache') <=> (last'.ret.status < 500)
            /\ (last'.url \in DOMAIN _url_cache') =>
                    _url_cache'[last'.url] = [status |-> last'.ret.status, body |-> last'.ret.body]
       /\ (/\ last.op = "fetch_url" /\ Has(last.log, "net")
           /\ last.ret.kind = "return" /\ last.ret.status >= 500
           /\ Repeats) =>
            Has(last'.log, "net")]_vars

C2_Witness ==
    /\ last.op = "fetch_url" /\ last.rep
    /\ Has(last.log, "net")
    /\ last.ret.kind = "return" /\ last.ret.status >= 500
    /\ last.url \notin DOMAIN _url_cache
    /\ _fstats.fail.num >= 2

\* what the tries of a _fetch_finance call got from fetch_url, in order:
\* the status from the network or from the URL cache, 0 for no response
IsTryResult(e) == e.ev \in {"net", "cached"}
TryResults(log) == SelectSeq(log, IsTryResult)
Iterations(log) == Len(TryResults(log)) + Count(log, "skip") + Count(log, "overlap")
\* the loop of _fetch_finance ran through all its tries and none got a 200
Exhausted(c) ==
    /\ c.op = "_scrape_finance" /\ c.done
    /\ Iterations(c.log) = READ_TRIES
    /\ ~Has(c.log, "overlap")
    /\ \A i \in 1..Len(TryResults(c.log)) : TryResults(c.log)[i].v \notin {0, 200}
LastStatus(log) == TryResults(log)[Len(TryResults(log))].v

\* C3: a _fetch_finance that uses up its tries without a 200 ends in a
\* URLOpenException with the last status and the URL, memoized under the
\* URL; while no cache_clear runs the entry stays, and a _scrape_finance
\* call for the URL re-raises it without touching the network.
C3_ExhaustionIsMemoized ==
    [][/\ Exhausted(last') =>
            /\ last'.ret = V("URLOpenException", LastStatus(last'.log), "", last'.url, "none")
            /\ last'.url \in DOMAIN _cache'
            /\ _cache'[last'.url] = last'.ret
       /\ \A u \in URLS :
            (u \in DOMAIN _cache /\ _cache[u].kind = "URLOpenException") =>
                /\ (StartsCall("_scrape_finance") /\ last'.url = u) =>
                        /\ last'.done
                        /\ last'.ret = _cache[u]
                        /\ last'.log = <<>>
                        /\ _fstats' = _fstats /\ _lastget' = _lastget
                /\ ~StartsCall("cache_clear") =>
                        (u \in DOMAIN _cache' /\ _cache'[u] = _cache[u])]_vars

C3_Witness ==
    /\ last.op = "_scrape_finance" /\ last.done /\ last.rep
    /\ last.log = <<>>
    /\ last.ret.kind = "URLOpenException" /\ last.ret.status = 500

\* C4: in a _fetch_finance call, after a try got status 404 nothing but the
\* stats record of that try and skipped iterations follows (no fetch, no
\* pacing wait, no backoff sleep), and the call ends with the
\* URLOpenException of status 404.
C4_NoTryAfter404 ==
    last.op = "_scrape_finance" =>
        \A i \in 1..Len(last.log) :
            (IsTryResult(last.log[i]) /\ last.log[i].v = 404) =>
                /\ \A j \in (i + 1)..Len(last.log) : last.log[j].ev \in {"pass", "skip"}
                /\ last.done
                /\ last.ret.kind = "URLOpenException" /\ last.ret.status = 404

C4_Witness ==
    /\ last.op = "_scrape_finance" /\ last.done
    /\ NetSeq(last.log) = <<Ev("net", 404)>>
    /\ last.log[Len(last.log)] = Ev("skip", 1)
    /\ last.ret.kind = "URLOpenException"

\* a finished _fetch_finance whose try 1 got a status >= 500 and whose try 2
\* got a 200, both from the network
ServerErrorThenSuccess ==
    /\ last.op = "_scrape_finance" /\ last.done
    /\ Len(NetSeq(last.log)) = 2
    /\ NetSeq(last.log)[1].v >= 500
    /\ NetSeq(last.log)[2].v = 200
OneFailOnePass ==
    /\ _fstats.fail.num = last.pre.fail + 1
    /\ _fstats.pass.num = last.pre.pass + 1

\* C5 as stated: server error then 200 always yields the success result,
\* nothing raised or memoized as a failure, one fail and one pass recorded.
C5_ServerErrorThenSuccessYieldsStores ==
    ServerErrorThenSuccess =>
        /\ last.ret.kind = "stores"
        /\ last.url \in DOMAIN _cache
        /\ ~IsException(_cache[last.url])
        /\ OneFailOnePass

\* C5 amended: server error then a 200 whose payload parses yields the
\* parsed stores, memoized as such, and the stats change by exactly one
\* fail and one pass.
C5_ServerErrorThenParsedPage ==
    (/\ ServerErrorThenSuccess
     /\ last.url \in DOMAIN _url_cache
     /\ _url_cache[last.url].body \in {"stores", "empty"}) =>
        /\ last.ret = V("stores", 0, _url_cache[last.url].body, "", "")
        /\ last.url \in DOMAIN _cache
        /\ _cache[last.url] = last.ret
        /\ OneFailOnePass

C5_Witness ==
    /\ ServerErrorThenSuccess
    /\ last.ret = V("stores", 0, "stores", "", "")
    /\ Has(last.log, "sleep")

\* C6: the pacing interval stays within [_MIN_INTERVAL, _MAX_INTERVAL].
C6_IntervalWithinBounds ==
    _MIN_INTERVAL <= _interval /\ _interval <= _MAX_INTERVAL

\* a recorded failure whose growth the cap cut off
C6_Witness ==
    /\ Has(last.log, "fail")
    /\ _interval = _MAX_INTERVAL
    /\ last.pre.interval < _MAX_INTERVAL
    /\ last.pre.interval * _MORE_INTERVAL > _MAX_INTERVAL * 100

\* C7: a recorded pass never increases the interval (and keeps it at or
\* above the floor), a recorded failure never decreases it (and keeps it at
\* or below the ceiling).
C7_PassNeverUpFailNeverDown ==
    last.op = "fetch_url" =>
        /\ Has(last.log, "pass") =>
                (_interval <= last.pre.interval /\ _interval >= _MIN_INTERVAL)
        /\ Has(last.log, "fail") =>
                (_interval >= last.pre.interval /\ _interval <= _MAX_INTERVAL)

\* a pass below the running average that shrank the interval
C7_Witness ==
    /\ last.op = "fetch_url" /\ Has(last.log, "pass")
    /\ _interval < last.pre.interval

\* C8: there is never more than one in-flight record, and a fetch that
\* starts while one exists ends in the ValueError of _fetch_stats without
\* calling the network and with the record left as it was.
C8_OneInFlight ==
    [][/\ Len(_fetch_start') <= 1
       /\ (_fetch_start # <<>> /\ Has(NewEvents, "nice")) =>
            /\ last'.ret = Raise("ValueError")
            /\ last'.done
            /\ ~Has(NewEvents, "net")
            /\ _fetch_start' = _fetch_start]_vars

C8_Witness ==
    /\ last.ret = Raise("ValueError")
    /\ Has(last.log, "overlap")
    /\ Len(_fetch_start) = 1

\* the three ways a step finds what it asks for in a cache
FetchUrlHit == StartsCall("fetch_url") /\ last'.url \in DOMAIN _url_cache
ScrapeHit == StartsCall("_scrape_finance") /\ CacheGet(_cache, last'.url)
TryHit ==
    \/ StartsCall("_scrape_finance") /\ ~CacheGet(_cache, last'.url)
       /\ last'.url \in DOMAIN _url_cache
    \/ last'.seq = last.seq /\ call.active /\ call.url \in DOMAIN _url_cache
CountedOnce ==
    /\ _fstats'.cached = _fstats.cached + 1
    /\ _fstats'.pass = _fstats.pass /\ _fstats'.fail = _fstats.fail
NoWaitNoNetwork ==
    /\ ~Has(NewEvents, "nice") /\ ~Has(NewEvents, "net")
    /\ _lastget' = _lastget

\* C9 as stated: every hit, in the URL cache or in the instance cache, is
\* counted as one 'cached' outcome and neither waits nor calls the network.
C9_EveryHitIsCounted ==
    [][(FetchUrlHit \/ ScrapeHit) => (CountedOnce /\ NoWaitNoNetwork /\ last'.done)]_vars

\* C9 amended: a hit in the URL cache (fetch_url called directly or by a
\* try of _fetch_finance) is counted as exactly one 'cached' outcome; a hit
\* in the instance cache of _scrape_finance returns the memoized stores or
\* re-raises the memoized failure and leaves the counter alone; neither
\* waits for the pacing nor calls the network.
C9_UrlHitsCountedInstanceHitsNot ==
    [][/\ FetchUrlHit =>
            /\ CountedOnce /\ NoWaitNoNetwork /\ last'.done
            /\ last'.ret = Return(_url_cache[last'.url].status, _url_cache[last'.url].body)
       /\ TryHit => (CountedOnce /\ NoWaitNoNetwork)
       /\ ScrapeHit =>
            /\ _fstats' = _fstats
            /\ last'.log = <<>> /\ _lastget' = _lastget /\ last'.done
            /\ last'.ret = _cache[last'.url]]_vars

C9_Witness ==
    /\ last.op = "_scrape_finance" /\ last.done
    /\ last.log = <<>>
    /\ last.ret.kind = "ParseException"
    /\ _fstats.cached = last.pre.cached

\* C10: cache_clear leaves both caches empty, and the request that follows
\* it for a URL that was cached goes to the network.
C10_ClearThenFetchAgain ==
    [][/\ StartsCall("cache_clear") => (_cache' = EmptyDict /\ _url_cache' = EmptyDict)
       /\ (/\ last.op = "cache_clear"
           /\ (StartsCall("fetch_url") \/ StartsCall("_scrape_finance"))
           /\ last'.url \in last.had) =>
            Has(last'.log, "net")]_vars

\* C11: a recorded failure leaves in HEADERS, for the next network attempt
\* to send, a User-Agent that differs from the one the failed attempt sent.
C11_IdentityRotatesAfterFailure ==
    [][Has(NewEvents, "fail") => HEADERS' # HEADERS]_vars

\* a fetch_url call whose network call ended without a response
TransportError(c) ==
    c.op = "fetch_url" /\ Has(c.log, "net") /\ NetSeq(c.log)[1].v = 0

\* C12: a fetch_url whose network call ends with a timeout or another
\* transport error records exactly one fail, raises that error to the
\* caller and creates no cache entry for the URL.
C12_TransportErrorIsOneFail ==
    [][(StartsCall("fetch_url") /\ TransportError(last')) =>
        /\ Count(last'.log, "fail") = 1
        /\ _fstats'.fail.num = _fstats.fail.num + 1
        /\ _fstats'.pass = _fstats.pass
        /\ last'.ret.kind \in {"Timeout", "ConnectionError"}
        /\ last'.url \notin DOMAIN _url_cache']_vars

\* C13: a _fetch_finance call ends with a transport error only when its
\* tries are used up: while tries remain, a try that ended with a transport
\* error is followed by a further try.
C13_TransportErrorIsRetried ==
    (/\ last.op = "_scrape_finance" /\ last.done
     /\ last.ret.kind \in {"Timeout", "ConnectionError"}) =>
        Iterations(last.log) = READ_TRIES

\* C14: a _scrape_finance call whose try got a 200 page without the
\* root.App.main script, or with data that lacks context.dispatcher.stores,
\* ends in a ParseException that is memoized under the URL.
C14_UnexpectedPayloadIsMemoized ==
    (/\ last.op = "_scrape_finance" /\ last.done
     /\ TryResults(last.log) # <<>> /\ LastStatus(last.log) = 200
     /\ last.url \in DOMAIN _url_cache
     /\ _url_cache[last.url].body \in {"noscript", "nostores"}) =>
        /\ last.ret.kind = "ParseException"
        /\ last.url \in DOMAIN _cache
        /\ _cache[last.url] = last.ret

\* C15: between two cache_clear calls an entry of the URL cache or of the
\* instance cache, once there, is neither removed nor changed by any
\* request; that includes memoized empty stores, which every later
\* _scrape_finance call parses again from the cached page.
C15_EntriesNeverChange ==
    [][~StartsCall("cache_clear") =>
        /\ \A u \in DOMAIN _url_cache :
                u \in DOMAIN _url_cache' /\ _url_cache'[u] = _url_cache[u]
        /\ \A u \in DOMAIN _cache :
                u \in DOMAIN _cache' /\ _cache'[u] = _cache[u]]_vars

\* memoized empty stores, fetched again from the URL cache and parsed again
C15_Witness ==
    /\ last.op = "_scrape_finance" /\ last.done /\ last.rep
    /\ last.log = <<Ev("cached", 200)>>
    /\ last.url \in DOMAIN _cache
    /\ _cache[last.url] = V("stores", 0, "empty", "", "")
    /\ last.ret = _cache[last.url]

\* what key discovery gives for the arguments of the call about to start,
\* with any one response for the scripts it may fetch
AnyScriptNet == CHOOSE n \in ScriptNets : TRUE
Discovered == _find_enckey(Cur(<<>>), data_obj, soup, <<AnyScriptNet, AnyScriptNet>>).st.ret
ModuleState == <<_url_cache, _cache, _fstats, _interval, _lastget, _fetch_start, HEADERS>>

\* C16: decrypt of a payload whose first 3 characters are not 'U2F' returns
\* the payload itself; it discovers no key, fetches nothing and leaves the
\* mapping and the module state as they were.
C16_UnencryptedIsReturnedUnchanged ==
    [][(StartsCall("decrypt") /\ First3(data) # <<"U", "2", "F">>) =>
        /\ last'.ret.kind = "data"
        /\ last'.ret.body = data
        /\ last'.log = <<>>
        /\ data_obj' = data_obj
        /\ ModuleState' = ModuleState]_vars

\* a base64 text of other bytes, with a mapping that discovery would have
\* changed and a script it would have fetched
C16_Witness ==
    /\ last.op = "decrypt" /\ last.ret.kind = "data"
    /\ data.kind = "b64"
    /\ HasKey(data_obj, "context") /\ Len(data_obj) = 2
    /\ soup # <<>>

\* C17: once the key is discovered, a decrypt of a base64 envelope that
\* starts with the signature either returns the value or fails with
\* DecryptException.
C17_ValidationFailureIsDecryptException ==
    [][(/\ StartsCall("decrypt") /\ data.kind = "b64" /\ ~NotEncrypted(data)
        /\ Discovered.kind = "password"
        /\ last'.ret.kind # "value") =>
            last'.ret.kind = "DecryptException"]_vars

\* C18: _find_enckey ends with a non-empty password or with
\* DecryptException('No enc key').
C18_NoKeyIsDecryptException ==
    last.op = "_find_enckey" =>
        \/ last.ret.kind = "password" /\ last.ret.body # <<>>
        \/ last.ret.kind = "DecryptException" /\ last.ret.body = <<"No enc key">>

\* the structured and the singleton strategy do not apply
FixedStepReached(d) == ~(HasKey(d, "_cs") /\ HasKey(d, "_cr")) /\ ~SingletonYields(d)
\* the items that follow the marker, 'context' aside
After(d) ==
    LET d1 == Del(d, "context")
    IN  SubSeq(d1, Index(Keys(d1), "plugins") + 1, Len(d1))
First4NonEmpty(d) == Len(After(d)) >= 4 /\ \A i \in 1..4 : After(d)[i].v # <<>>
First4Joined(d) == After(d)[1].v \o After(d)[2].v \o After(d)[3].v \o After(d)[4].v
\* the call went on to the script strategy: it fetched the first main.js
\* script, or found none and ended with 'No enc key'
FellThrough ==
    IF \E i \in 1..Len(soup) : soup[i].main THEN Has(last'.log, "net")
    ELSE last'.ret.kind = "DecryptException"

\* C19 as stated: with the marker present and the first 4 keys after it
\* non-empty, discovery returns their values joined in order; without the
\* marker the step raises nothing and the next strategy runs.
C19_FirstFourAfterMarker ==
    [][(StartsCall("_find_enckey") /\ FixedStepReached(data_obj)) =>
        /\ (HasKey(data_obj, "plugins") /\ First4NonEmpty(data_obj)) =>
                (last'.ret.kind = "password" /\ last'.ret.body = First4Joined(data_obj))
        /\ ~HasKey(data_obj, "plugins") => FellThrough]_vars

\* C19 amended: with the marker present and exactly 4 keys after it, all
\* non-empty, discovery returns their values joined in order; with more
\* than 4 keys after the marker, or without the marker, the step raises
\* nothing and the next strategy runs.
C19_ExactlyFourAfterMarker ==
    [][(StartsCall("_find_enckey") /\ FixedStepReached(data_obj)) =>
        /\ (HasKey(data_obj, "plugins") /\ First4NonEmpty(data_obj)
            /\ Len(After(data_obj)) = 4) =>
                (last'.ret.kind = "password" /\ last'.ret.body = First4Joined(data_obj))
        /\ (HasKey(data_obj, "plugins") /\ Len(After(data_obj)) > 4) => FellThrough
        /\ ~HasKey(data_obj, "plugins") => FellThrough]_vars

C19_Witness ==
    /\ last.op = "_find_enckey"
    /\ last.ret.kind = "password"
    /\ last.ret.body = <<"k1", "k2", "k3", "k4">>
    /\ HasKey(data_obj, "k0") /\ Keys(data_obj)[2] = "plugins"

\* C20: decrypt of the envelope made from a value v, a password p and a
\* salt s, with a mapping from which discovery yields p, returns v.
C20_RoundTrip ==
    [][StartsCall("decrypt") =>
        \A v \in JsonValues, p \in Passwords, s \in Salts :
            (/\ data = Encrypt(v, p, s)
             /\ Discovered.kind = "password"
             /\ Discovered.body = p) =>
                (last'.ret.kind = "value" /\ last'.ret.body = v)]_vars

\* a value whose text fills a block, so that the padding is a block of its own
C20_Witness ==
    /\ last.op = "decrypt"
    /\ last.ret.kind = "value"
    /\ last.ret.body = <<Item("a", "1"), Item("b", "2")>>
    /\ data = Encrypt(last.ret.body, <<"k1", "k2", "k3", "k4">>, "s2")

\* C23: when a fetch_url call has ended, by returning or by raising, no
\* in-flight record is left.
C23_NoRecordAfterFetch ==
    (last.op = "fetch_url" /\ last.done) => _fetch_start = <<>>

\* C25: in a _fetch_finance call that went to the network with its first
\* try, every try, the later ones too, passes through the pacing wait and
\* records one pass or one fail.
C25_EveryTryIsPacedAndRecorded ==
    (/\ last.op = "_scrape_finance" /\ last.done
     /\ TryResults(last.log) # <<>> /\ TryResults(last.log)[1].ev = "net"
     /\ last.ret.kind \notin {"ConnectionError", "ValueError"}) =>
        /\ Count(last.log, "nice") = Len(TryResults(last.log))
        /\ Count(last.log, "pass") + Count(last.log, "fail") = Len(TryResults(last.log))

\* the latency of the pass a step records
PassElapsed == NewEvents[CHOOSE i \in 1..Len(NewEvents) : NewEvents[i].ev = "pass"].v

\* C26: a recorded pass of latency L turns the interval into
\* max(interval * _LESS_INTERVAL, _MIN_INTERVAL) when L is below the average
\* of the passes recorded before it, and leaves it unchanged otherwise.
C26_ShrinkIffBelowAverage ==
    [][(StartsCall("fetch_url") /\ Has(NewEvents, "pass")) =>
        /\ PassElapsed * _fstats.pass.num < _fstats.pass.sum =>
                _interval' = Max2((_interval * _LESS_INTERVAL) \div 100, _MIN_INTERVAL)
        /\ PassElapsed * _fstats.pass.num >= _fstats.pass.sum =>
                _interval' = _interval]_vars

\* a pass at the average of the passes before it, away from the floor
C26_Witness ==
    /\ last.op = "fetch_url" /\ Has(last.log, "pass")
    /\ _fstats.pass.num = 2 /\ _fstats.pass.min = _fstats.pass.max
    /\ _interval = last.pre.interval /\ _interval > _MIN_INTERVAL

\* the iterations of a log that fetched or tried to: all but the skipped
Attempts(log) == Len(TryResults(log)) + Count(log, "overlap")
AttemptsBefore(log, i) == Attempts(SubSeq(log, 1, i - 1))
\* the retry in progress can sleep for the backoff with jitter r
CanSleepWith(r) ==
    ENABLED (/\ ScrapeRetry(CacheNets)
             /\ \E i \in 1..Len(last'.log) :
                    i > Len(last.log) /\ last'.log[i] = Ev("sleep", BackoffSleep(call.tries, r)))
BackoffShape(jitter) ==
    last.op = "_scrape_finance" =>
        /\ Len(TryResults(last.log)) <= READ_TRIES
        /\ last.log # <<>> => last.log[1].ev # "sleep"
        /\ (last.log # <<>> /\ last.done) => Count(last.log, "sleep") = Attempts(last.log) - 1
        /\ \A i \in 1..Len(last.log) :
            last.log[i].ev = "sleep" =>
                /\ AttemptsBefore(last.log, i) >= 1
                /\ \E r \in jitter :
                    last.log[i].v * 2 = 2 ^ AttemptsBefore(last.log, i) + 2 * r

\* C29 as stated: no sleep before the first try, a sleep of 2^k/2 + r with
\* r in 1..5 before every later try, at most READ_TRIES fetch attempts in a
\* call, and both 1 and 5 possible (looked at in the first call's retry).
C29_JitterOneToFive ==
    /\ BackoffShape(1..5)
    /\ (call.active /\ last.seq = 1) => (CanSleepWith(1) /\ CanSleepWith(5))

\* C29 amended: the same with r in 1..4, both 1 and 4 possible.
C29_JitterOneToFour ==
    /\ BackoffShape(1..4)
    /\ (call.active /\ last.seq = 1) => (CanSleepWith(1) /\ CanSleepWith(4))

\* a second try that slept 2^1/2 + 4
C29_Witness ==
    /\ last.op = "_scrape_finance" /\ last.done
    /\ Has(last.log, "sleep")
    /\ \E i \in 1..Len(last.log) : last.log[i] = Ev("sleep", 5)
    /\ Len(NetSeq(last.log)) = READ_TRIES

\* the strategies of key discovery, told from the mapping passed in
Structured(d) == HasKey(d, "_cs") /\ HasKey(d, "_cr")
Unreserved(d) == {i \in 1..Len(d) : d[i].k \notin {"context", "plugins"}}
OnlyValue(d) == d[CHOOSE i \in Unreserved(d) : TRUE].v
OneValue(d) == Cardinality(Unreserved(d)) = 1 /\ OnlyValue(d) # <<>>
SingletonFirst(d) == ~Structured(d) /\ OneValue(d)
FixedFirst(d) ==
    /\ ~Structured(d) /\ ~OneValue(d) /\ HasKey(d, "plugins")
    /\ Len(After(d)) = 4 /\ First4NonEmpty(d)
Returns(pw) == last'.ret.kind = "password" /\ last'.ret.body = pw
NoDownload == ~Has(last'.log, "net")

C21_FailureDoesNotAbortBatch ==
    (/\ last.op = "get_stock_data" /\ last.done
     /\ last.ret.kind \notin {"NameError", "ValueError"}) =>
        /\ last.ret.kind = "dict"
        /\ \A i \in 1..Len(batch.ticker) : Ev("tick", i) \in {last.log[j] : j \in 1..Len(last.log)}
        /\ \A i \in 1..Len(batch.ticker) :
            Ev("entry", i) \in {last.log[j] : j \in 1..Len(last.log)} => batch.ticker[i] \in batch.data

\* what two runs are compared on: everything but the flags and the output
NotPrint(e) == e.ev # "print"
Observable(S) ==
    [url_cache |-> S.url_cache, cache |-> S.cache, fstats |-> S.fstats,
     interval |-> S.interval, lastget |-> S.lastget, fetch_start |-> S.fetch_start,
     HEADERS |-> S.HEADERS, ret |-> S.ret, log |-> SelectSeq(S.log, NotPrint)]
Reached == [Cur(<<>>)' EXCEPT !.ret = last'.ret, !.log = last'.log]

\* C22: a _fetch_url step under any setting of the flags leaves the cache,
\* the stats, the interval, the pacing timestamp, the in-flight list and
\* the return value as the same request with the same network outcome
\* leaves them under every other setting; set_debug changes none of them.
C22_FlagsGateOutputOnly ==
    [][/\ StartsCall("fetch_url") =>
            \E net \in FlagNets :
                /\ Observable(_fetch_url(Cur(<<>>), last'.url, net)) = Observable(Reached)
                /\ \A f \in FlagSets :
                    Observable(_fetch_url([Cur(<<>>) EXCEPT !.flags = f], last'.url, net))
                        = Observable(Reached)
       /\ StartsCall("set_debug") =>
            Observable([Cur(<<>>) EXCEPT !.ret = last'.ret]) = Observable(Reached)]_vars

\* the tenth pass with every flag on: all six reports are printed
C22_Witness ==
    /\ last.op = "fetch_url"
    /\ flags.DEBUG # 0 /\ flags.TIME_REPORT /\ flags.SEE_FETCH /\ flags.STAT_REPORT # 0
    /\ \A what \in 1..6 : \E i \in 1..Len(last.log) : last.log[i] = Ev("print", what)
    /\ _fstats.pass.num = 10

\* a thread between its test for a request in flight and the end of its call
InFlight(t) == threads[t].pc \in {"append", "get"}

\* C24: with two threads inside _fetch_url on uncached URLs, the list never
\* holds two in-flight records, the two threads are never both past the
\* overlap test with their calls still running, and a thread only ever
\* pops the timestamp it appended.
C24_SecondCallerIsRejected ==
    threads # NoThreads =>
        /\ Len(_fetch_start) <= 1
        /\ ~(\A t \in ThreadIds : InFlight(t))
        /\ \A t \in ThreadIds : threads[t].popped \in {0, threads[t].stamp}

\* the times a _be_nice call logs: entry and return
TimeOf(log, ev) == log[CHOOSE i \in 1..Len(log) : log[i].ev = ev].v
Within(x, centre, radius) == centre - radius <= x /\ x <= centre + radius
\* half of the 0.01 s the delay is rounded to
HalfStep == 5
PacedWithin(slack) ==
    (StartsCall("_be_nice") /\ _lastget # 0) =>
        /\ TimeOf(last'.log, "return") - TimeOf(last'.log, "now") >= _MIN_DELAY
        /\ TimeOf(last'.log, "now") - _lastget < _interval =>
                Within(_lastget', _lastget + _interval, _VARIANCE + slack)
        /\ TimeOf(last'.log, "return") >= _lastget + _interval - _VARIANCE - slack

\* C27 as stated: a fetch after the first starts at least _MIN_DELAY after
\* _be_nice was entered; when the interval has not elapsed yet it is timed
\* for within _VARIANCE of the previous fetch start plus the interval; it
\* never starts before the previous fetch start plus the interval minus
\* _VARIANCE.
C27_PacedWithinVariance == [][PacedWithin(0)]_vars

\* C27 amended: the same up to the rounding of the delay to 0.01 s, which
\* moves the start by up to 0.005 s either way.
C27_PacedWithinVarianceRounded == [][PacedWithin(HalfStep)]_vars

\* a start timed 4 ms before the previous start plus interval minus _VARIANCE
C27_Witness ==
    /\ last.op = "_be_nice" /\ Has(last.log, "delay")
    /\ _lastget = TimeOf(last.log, "now") - 996 + _interval - _VARIANCE - 4

\* C28: every sleep of a pacing wait is asked for at most 1.5 s; with more
\* than 1.5 s left the sleep is 1.1 s and the callback follows it; the call
\* ends with a callback, on the first fetch too.
C28_SleepsAreShort ==
    last.op = "_be_nice" =>
        /\ \A i \in 1..Len(last.log) :
            last.log[i].ev = "sleep" =>
                /\ last.log[i].v <= 1500
                /\ last.log[i - 1].ev = "left"
                /\ last.log[i - 1].v > 1500 =>
                        (last.log[i].v = SleepChunk /\ last.log[i + 1].ev = "cb")
        /\ Len(last.log) >= 2
        /\ last.log[Len(last.log) - 1].ev = "cb"
        /\ last.log[Len(last.log)].ev = "return"

\* a wait of 1.1 s sleeps that ends with a sleep of more than 1.1 s
C28_Witness ==
    /\ last.op = "_be_nice"
    /\ Cardinality({i \in 1..Len(last.log) : last.log[i] = Ev("sleep", SleepChunk)}) >= 3
    /\ \E i \in 1..Len(last.log) :
        last.log[i].ev = "sleep" /\ last.log[i].v > SleepChunk /\ last.log[i].v <= 1500

\* the unreserved keys of the mapping that hold a non-empty value
NonEmptyOthers(d) == {i \in Unreserved(d) : d[i].v # <<>>}
TheValue(d) == d[CHOOSE i \in NonEmptyOthers(d) : TRUE].v

\* C31 as stated: without '_cs' and '_cr' together, a mapping in which
\* exactly one unreserved key holds a non-empty value gives that value as
\* the password, however many unreserved keys with empty values it holds.
C31_OneNonEmptyValue ==
    [][(/\ StartsCall("_find_enckey") /\ ~Structured(data_obj)
        /\ Cardinality(NonEmptyOthers(data_obj)) = 1) =>
            Returns(TheValue(data_obj))]_vars

\* C31 amended: the value is returned when its key is the only unreserved
\* key of the mapping; next to a second unreserved key, empty or not, the
\* loop breaks, the strategy yields nothing and no password comes out of
\* the single value.
C31_OnlyUnreservedKey ==
    [][(/\ StartsCall("_find_enckey") /\ ~Structured(data_obj)
        /\ Cardinality(NonEmptyOthers(data_obj)) = 1) =>
            /\ Cardinality(Unreserved(data_obj)) = 1 =>
                (Returns(TheValue(data_obj)) /\ NoDownload /\ data_obj' = data_obj)
            /\ Cardinality(Unreserved(data_obj)) > 1 => last'.ret.kind # "password"]_vars

\* the value of the only unreserved key, from a mapping that holds both
\* reserved names as well
C31_Witness ==
    /\ last.op = "_find_enckey"
    /\ last.ret.kind = "password" /\ last.ret.body = <<"v0">>
    /\ HasKey(data_obj, "context") /\ HasKey(data_obj, "plugins")
    /\ Len(data_obj) = 3

\* the script that answers with status 200 holds one store-assignment
\* region, and the candidate keys mined from it are these four
MainJsKeys == <<"k1", "k2", "k3", "k4">>
Resolved(d) == \A i \in 1..Len(MainJsKeys) : HasKey(d, MainJsKeys[i]) /\ Get(d, MainJsKeys[i]) # <<>>
MinedParts(d) == [i \in 1..Len(MainJsKeys) |-> Get(d, MainJsKeys[i])]

\* C32: when discovery downloads a script (status 200) with a region whose
\* 4 candidate keys all resolve to non-empty values in the mapping, it
\* returns the 4 values joined in candidate order.
C32_MinedKeyIsReturned ==
    [][(/\ StartsCall("_find_enckey")
        /\ \E i \in 1..Len(last'.log) : last'.log[i] = Ev("net", 200)
        /\ Resolved(data_obj)) =>
            Returns(Join(MinedParts(data_obj)))]_vars

\* the chain the claim describes, written out: block 1 hashes password and
\* salt, block j hashes block j-1, password and salt
RECURSIVE Chain(_, _, _)
Chain(j, password, salt) ==
    IF j = 1 THEN Md5(<<>>, password, salt)
    ELSE Md5(<<Chain(j - 1, password, salt)>>, password, salt)
\* byte n of the concatenated blocks
ChainByte(n, password, salt) ==
    [of |-> Chain(((n - 1) \div DigestSize) + 1, password, salt), at |-> ((n - 1) % DigestSize) + 1]
CeilDiv(a, b) == (a + b - 1) \div b

\* C33: _EVPKDF computes exactly ceil((keySize + ivSize) / digest size)
\* blocks, block 1 = H(password || salt) and block j = H(block j-1 ||
\* password || salt); the key is the first keySize bytes of the blocks put
\* end to end and the iv the next ivSize bytes, so the key has exactly
\* keySize bytes and the iv exactly ivSize bytes.
C33_KeyAndIvFromTheChain ==
    evpkdf.done =>
        /\ Len(evpkdf.blocks) = CeilDiv(evpkdf.keySize + evpkdf.ivSize, DigestSize)
        /\ \A j \in 1..Len(evpkdf.blocks) :
            evpkdf.blocks[j] = Chain(j, evpkdf.password, evpkdf.salt)
        /\ Len(evpkdf.key) = evpkdf.keySize
        /\ Len(evpkdf.iv) = evpkdf.ivSize
        /\ \A n \in 1..evpkdf.keySize :
            evpkdf.key[n] = ChainByte(n, evpkdf.password, evpkdf.salt)
        /\ \A n \in 1..evpkdf.ivSize :
            evpkdf.iv[n] = ChainByte(evpkdf.keySize + n, evpkdf.password, evpkdf.salt)

\* the sizes decrypt asks for: three blocks, the iv is the whole third one
C33_Witness ==
    /\ evpkdf.done
    /\ evpkdf.keySize = KeySize /\ evpkdf.ivSize = IvSize
    /\ Len(evpkdf.blocks) = 3
    /\ evpkdf.password # <<>> /\ Len(evpkdf.salt) = 8
    /\ evpkdf.iv = DigestBytes(evpkdf.blocks[3])

\* the elapsed times a log records under one outcome, in order
ElapsedOf(log, outcome) ==
    LET Is(e) == e.ev = outcome
        evs == SelectSeq(log, Is)
    IN  [i \in 1..Len(evs) |-> evs[i].v]
\* the events the step adds to the log of the run
Added == SubSeq(last'.log, Len(last.log) + 1, Len(last'.log))
HistAt(hist, n) == IF n \in DOMAIN hist THEN hist[n] ELSE 0
\* 0.1 s
BucketWidth == 100
\* the step changes the histogram hist into hist2 by one count in bucket n
OneMoreIn(hist, hist2, n) ==
    /\ HistAt(hist2, n) = HistAt(hist, n) + 1
    /\ \A m \in (DOMAIN hist \cup DOMAIN hist2) \ {n} : HistAt(hist2, m) = HistAt(hist, m)

\* C34: a step that records an elapsed time e as a pass (as a fail) adds
\* one to bucket ceil(e / 0.1 s) of the pass (fail) histogram and changes
\* no other bucket of either histogram.
C34_HistogramBucketIsCeiling ==
    [][/\ \A e \in {ElapsedOf(Added, "pass")[i] : i \in 1..Len(ElapsedOf(Added, "pass"))} :
            /\ OneMoreIn(_fstats.pass.hist, _fstats'.pass.hist, CeilDiv(e, BucketWidth))
            /\ _fstats'.fail.hist = _fstats.fail.hist
       /\ \A e \in {ElapsedOf(Added, "fail")[i] : i \in 1..Len(ElapsedOf(Added, "fail"))} :
            /\ OneMoreIn(_fstats.fail.hist, _fstats'.fail.hist, CeilDiv(e, BucketWidth))
            /\ _fstats'.pass.hist = _fstats.pass.hist]_vars

\* 0.1 s exactly is in bucket 1, one millisecond more in bucket 2, and a
\* second record of a bucket counts 2
C34_Witness ==
    /\ HistAt(_fstats.pass.hist, 1) = 2
    /\ HistAt(_fstats.pass.hist, 2) = 1
    /\ ElapsedOf(last.log, "pass") = <<100, 101, 50>>

RECURSIVE HistTotal(_)
HistTotal(hist) ==
    IF DOMAIN hist = {} THEN 0
    ELSE LET n == CHOOSE n \in DOMAIN hist : TRUE
         IN  hist[n] + HistTotal([m \in DOMAIN hist \ {n} |-> hist[m]])
Smallest(es) == CHOOSE x \in {es[i] : i \in 1..Len(es)} : \A i \in 1..Len(es) : x <= es[i]
Largest(es) == CHOOSE x \in {es[i] : i \in 1..Len(es)} : \A i \in 1..Len(es) : x >= es[i]
\* a bucket against the elapsed times es recorded in it
BucketOk(fs, es) ==
    /\ HistTotal(fs.hist) = fs.num
    /\ fs.num > 0 =>
        /\ fs.avg.n * fs.num = fs.sum * fs.avg.d
        /\ fs.min * fs.avg.d <= fs.avg.n /\ fs.avg.n <= fs.max * fs.avg.d
        /\ fs.min = Smallest(es)
        /\ fs.max = Largest(es)

\* C37: in every state, for the pass and for the fail bucket, the
\* histogram counts add up to num and, once num > 0, avg = sum / num,
\* min <= avg <= max, and min and max are the smallest and the largest
\* elapsed time recorded in the bucket.
C37_BucketsAreConsistent ==
    /\ BucketOk(_fstats.pass, ElapsedOf(last.log, "pass"))
    /\ BucketOk(_fstats.fail, ElapsedOf(last.log, "fail"))

\* what _fetch_url works on besides the 'cached' counter
FetchFrame ==
    <<_fstats.pass, _fstats.fail, _interval, _lastget, HEADERS, _fetch_start, _url_cache>>

\* C35: a _fetch_url call, or a try of _fetch_finance, that finds its URL in
\* the URL cache adds one to 'cached' and leaves the pass and fail buckets,
\* the interval, the last-fetch timestamp, the identity, the in-flight
\* list and the URL cache as they were; called directly it also leaves the
\* instance cache alone and returns the cached pair.
C35_HitChangesOnlyCached ==
    [][/\ (Has(NewEvents, "cached") /\ ~Has(NewEvents, "net")) =>
            /\ FetchFrame' = FetchFrame
            /\ _fstats'.cached = _fstats.cached + 1
       /\ (StartsCall("fetch_url") /\ last'.url \in DOMAIN _url_cache) =>
            /\ FetchFrame' = FetchFrame
            /\ _fstats'.cached = _fstats.cached + 1
            /\ _cache' = _cache
            /\ last'.ret = Return(_url_cache[last'.url].status, _url_cache[last'.url].body)]_vars

\* a hit after a pass and a failure, with the interval grown and a second
\* URL in the cache
C35_Witness ==
    /\ last.op = "fetch_url" /\ last.log = <<Ev("cached", 200)>>
    /\ _fstats.cached = 1 /\ _fstats.pass.num = 2 /\ _fstats.fail.num = 1
    /\ _interval > _MIN_INTERVAL
    /\ DOMAIN _url_cache = URLS

\* the network attempts a step made, and what it added to the two counts
AttemptsMade == Len(NetSeq(NewEvents))
Recorded(outcome) == _fstats'[outcome].num - _fstats[outcome].num
\* the attempt of the step came back with a response of this status
Answered(status) == NetSeq(NewEvents) = <<Ev("net", status)>>

\* C36: an attempt that returns a response is recorded once, as a pass
\* when its status is below 500 and as a fail otherwise; a 404 is a pass
\* that neither grows the interval nor changes the identity; and every
\* attempt that ended adds one to pass count + fail count.
C36_EveryAttemptIsOneOutcome ==
    [][/\ \A status \in {200, 403, 404} :
            Answered(status) => (Recorded("pass") = 1 /\ Recorded("fail") = 0)
       /\ Answered(500) => (Recorded("pass") = 0 /\ Recorded("fail") = 1)
       /\ Answered(404) => (_interval' <= _interval /\ HEADERS' = HEADERS)
       /\ Recorded("pass") + Recorded("fail") = AttemptsMade]_vars

\* the same without the attempts that ended in a requests.ConnectionError
C36_ExceptConnectionError ==
    [][last'.ret.kind # "ConnectionError" =>
        /\ \A status \in {200, 403, 404} :
            Answered(status) => (Recorded("pass") = 1 /\ Recorded("fail") = 0)
        /\ Answered(500) => (Recorded("pass") = 0 /\ Recorded("fail") = 1)
        /\ Answered(404) => (_interval' <= _interval /\ HEADERS' = HEADERS)
        /\ Recorded("pass") + Recorded("fail") = AttemptsMade]_vars

\* the items of the mapping under other names than 'context', in order
IsNotContext(it) == it.k # "context"
Rest(d) == SelectSeq(d, IsNotContext)

\* C38: a _find_enckey call leaves every item of the caller's mapping in
\* its place with its value, 'context' aside, which it may remove; a call
\* that ends in the structured strategy (with a password or with its
\* AssertionError) or yields through the singleton strategy leaves the
\* whole mapping as it was, and every other call has removed 'context'.
C38_OnlyContextIsRemoved ==
    [][StartsCall("_find_enckey") =>
        /\ Rest(data_obj') = Rest(data_obj)
        /\ Len(data_obj) - Len(data_obj') \in {0, 1}
        /\ (Structured(data_obj) \/ SingletonFirst(data_obj)) => data_obj' = data_obj
        /\ ~(Structured(data_obj) \/ SingletonFirst(data_obj)) => data_obj' = Rest(data_obj)]_vars

\* discovery fell through every strategy and left the marker with five
\* keys after it, in order
C38_Witness ==
    /\ last.op = "_find_enckey"
    /\ last.ret.kind = "DecryptException"
    /\ Keys(data_obj) = <<"k0", "plugins", "k1", "k2", "k3", "k4", "k5">>

\* the end of a round with counter i, for both outcomes of _get_api_data:
\* it returns, or it recurses with i + 1 while i < 3, and what it returns
\* after a None at i = 3 is cleaned in last-attempt mode
RoundEnds(i, json_content) ==
    LET R == ApiEnd(Cur(<<>>), [NoApi EXCEPT !.active = TRUE, !.i = i, !.rounds = i + 1],
                    json_content)
        none == _clean_historical_data(_clean_api_data(json_content), FALSE).kind = "None"
    IN  /\ R.a.active <=> (none /\ i < RetryLimit)
        /\ R.a.active => R.a.i = i + 1 /\ R.a.rounds = i + 2 /\ R.a.fetches = 0
        /\ ~R.a.active => /\ R.st.ret.kind = "cleaned"
                          /\ (R.st.ret.info = "last_attempt") <=> (none /\ i = RetryLimit)

\* C39: a _recursive_api_request ends: it goes through at most 4 rounds
\* (i from 0 to 3), each with at most READ_TRIES fetches, the round with
\* i = 3 returns data cleaned in last-attempt mode instead of recursing,
\* and a request in progress always comes to its end.
C39_RequestEndsWithinFourRounds ==
    /\ [](/\ api.rounds <= RetryLimit + 1 /\ api.i <= RetryLimit
          /\ api.fetches <= READ_TRIES
          /\ api.rounds = api.i + (IF last.op = "_recursive_api_request" THEN 1 ELSE 0)
          /\ \A i \in 0..RetryLimit, json_content \in {NoJson, "json"} :
                RoundEnds(i, json_content))
    /\ (api.active ~> ~api.active)

\* a request that used both tries of its round, after a sleep, and returned
C39_Witness ==
    /\ last.op = "_recursive_api_request" /\ ~api.active
    /\ last.ret.kind = "cleaned"
    /\ api.fetches = READ_TRIES
    /\ Has(last.log, "sleep")
    /\ Len(NetSeq(last.log)) = READ_TRIES

\* json_content is None after every try, so no request goes beyond its
\* first round
C39_NoSecondRound == api.rounds <= 1 /\ last.ret.info # "last_attempt"

====
